---- MODULE Spec2Model ----
(***************************************************************************)
(* The local data layer and backup protocol of the manhole-cover catalog:  *)
(* the four IndexedDB collections (photos, prefectures, settings, images), *)
(* the photo repository (createPhoto, deletePhoto), the thumbnail re-crop  *)
(* save of the photo detail page, the prefecture seeding, the settings     *)
(* repository and the backup codec (exportAllData, importAllData).         *)
(*                                                                         *)
(* Every awaited storage request of a repository operation is one step of  *)
(* the model, so the states between two writes are states of the model.    *)
(* importAllData runs inside one readwrite transaction over the four       *)
(* collections and is one step: other requests cannot observe the inside   *)
(* of a transaction.                                                       *)
(***************************************************************************)
EXTENDS Integers, Sequences, FiniteSets, TLC

VARIABLES photos, prefectures, settings, images, pc, loc, last, nextId, database

store == <<photos, prefectures, settings, images>>
vars == <<photos, prefectures, settings, images, pc, loc, last, nextId, database>>

\* the module variable dbInstance of indexedDB.ts (0 is null, a handle is the
\* number of the call of openDatabase that produced it), how many times
\* openDatabase was called and how many of the calls resolved
NoDatabase == [dbInstance |-> 0, opened |-> 0, resolved |-> 0]

(***************************************************************************)
(* Bounds of the model.                                                    *)
(***************************************************************************)
\* generateId() is called at most MaxId times in a behaviour of Spec
MaxId == 6
\* and at most MaxSeqId times in a behaviour of SeqSpec
MaxSeqId == 9
\* and at most MaxBackupId times in a behaviour of BackupSpec
MaxBackupId == 3
\* capture dates are 1..MaxDate
MaxDate == 2
\* generateId() is called at most MaxEditId times in a behaviour of EditSpec
MaxEditId == 6
\* and at most MaxWordId times in a behaviour of WordSpec
MaxWordId == 3
\* source images are up to MaxOffset pixels narrower or wider than a multiple of
\* a width cap
MaxOffset == 1
\* ids are handed out up to MaxCropId in a behaviour of CropSpec
MaxCropId == 6
\* openDatabase is called at most MaxOpens times
MaxOpens == 4
\* ids are handed out up to MaxRaceId in a behaviour of RaceSpec
MaxRaceId == 6
\* ids are handed out up to MaxLookupId in a behaviour of LookupSpec
MaxLookupId == 3

Procs == {1, 2}
SeqProcs == {1}

Dates == 1..MaxDate
\* an optional date that is undefined
NoDate == 0
\* an optional number that is undefined
NoNumber == 0

\* the fixed catalog of regions (types/prefecture.ts, 47 entries in the program)
PREFECTURE_LIST == {"01", "02"}

SETTINGS_ID == "app_settings"

(***************************************************************************)
(* Generic helpers on functions used as key -> value collections.          *)
(***************************************************************************)
Put(coll, key, val) == [k \in DOMAIN coll \cup {key} |-> IF k = key THEN val ELSE coll[k]]

Delete(coll, key) == [k \in DOMAIN coll \ {key} |-> coll[k]]

Empty == [k \in {} |-> 0]

(***************************************************************************)
(* Blobs and their base64 text.  A byte is 0..255; a character of the      *)
(* base64 text is its sextet value 0..63, PadChar for "=", and any other   *)
(* number for a character outside the alphabet.                            *)
(***************************************************************************)
PadChar == 64

RECURSIVE Base64Encode(_)
Base64Encode(bytes) ==
  IF Len(bytes) = 0 THEN <<>>
  ELSE IF Len(bytes) = 1 THEN
    << bytes[1] \div 4, (bytes[1] % 4) * 16, PadChar, PadChar >>
  ELSE IF Len(bytes) = 2 THEN
    << bytes[1] \div 4,
       (bytes[1] % 4) * 16 + bytes[2] \div 16,
       (bytes[2] % 16) * 4,
       PadChar >>
  ELSE
    << bytes[1] \div 4,
       (bytes[1] % 4) * 16 + bytes[2] \div 16,
       (bytes[2] % 16) * 4 + bytes[3] \div 64,
       bytes[3] % 64 >> \o Base64Encode(SubSeq(bytes, 4, Len(bytes)))

\* a variant that returns the whole data URL, the media type prefix included
blobToBase64DataUrl(blob) == <<99, 99>> \o Base64Encode(blob.bytes)

\* blobToBase64: the part of the data URL after the comma
blobToBase64(blob) == Base64Encode(blob.bytes)

\* atob's first step: with a length divisible by 4, one or two trailing "=" are removed
StripPadding(text) ==
  IF Len(text) > 0 /\ Len(text) % 4 = 0 /\ text[Len(text)] = PadChar
  THEN IF text[Len(text) - 1] = PadChar
       THEN SubSeq(text, 1, Len(text) - 2)
       ELSE SubSeq(text, 1, Len(text) - 1)
  ELSE text

\* atob throws InvalidCharacterError on such a text
AtobFails(text) ==
  LET t == StripPadding(text)
  IN  \/ Len(t) % 4 = 1
      \/ \E i \in 1..Len(t) : t[i] \notin 0..63

RECURSIVE DecodeSextets(_)
DecodeSextets(t) ==
  IF Len(t) < 2 THEN <<>>
  ELSE IF Len(t) = 2 THEN << t[1] * 4 + t[2] \div 16 >>
  ELSE IF Len(t) = 3 THEN
    << t[1] * 4 + t[2] \div 16, (t[2] % 16) * 16 + t[3] \div 4 >>
  ELSE
    << t[1] * 4 + t[2] \div 16,
       (t[2] % 16) * 16 + t[3] \div 4,
       (t[3] % 4) * 64 + t[4] >> \o DecodeSextets(SubSeq(t, 5, Len(t)))

\* base64ToBlob, for a text atob accepts
base64ToBlob(base64, type) == [bytes |-> DecodeSextets(StripPadding(base64)), type |-> type]

(***************************************************************************)
(* Records of the four collections.                                        *)
(***************************************************************************)
\* CropInfo: absent, or the rectangle form in percent of the source
NoCrop == [shape |-> "none"]
RectCrop(x, y, w, h) == [shape |-> "rect", x |-> x, y |-> y, width |-> w, height |-> h]
\* the deprecated form {x, y, size}, a value with size, width and height, and a
\* value with neither size nor width and height
SizeCrop(x, y, size) == [shape |-> "size", x |-> x, y |-> y, size |-> size]
BothCrop(x, y, size, w, h) ==
  [shape |-> "both", x |-> x, y |-> y, size |-> size, width |-> w, height |-> h]
PointCrop(x, y) == [shape |-> "point", x |-> x, y |-> y]

\* crop values of every shape a record may carry
StoredCropInputs ==
  {NoCrop, RectCrop(25, 25, 50, 50), SizeCrop(10, 20, 40), BothCrop(10, 20, 40, 50, 60),
   PointCrop(10, 20)}

\* the blobs processImage hands to the repository (canvas.toBlob as image/jpeg)
ImageBlob == [bytes |-> <<255, 216, 255, 224>>, type |-> "image/jpeg"]
ThumbnailBlob == [bytes |-> <<255, 216>>, type |-> "image/jpeg"]
RecropBlob == [bytes |-> <<255, 216, 1>>, type |-> "image/jpeg"]
NoBlob == [bytes |-> <<>>, type |-> ""]

NoPhoto ==
  [id |-> 0, prefectureId |-> "", imageBlobId |-> 0, thumbnailBlobId |-> 0,
   memo |-> "", takenAt |-> NoDate, cropInfo |-> NoCrop, favorite |-> FALSE]

NoPref == [id |-> "", photoCount |-> 0, lastPhotoDate |-> NoDate, totalManholes |-> NoNumber]

\* premiumFeatures is "undefined" (absent) or "enabled"
DefaultSettings ==
  [id |-> SETTINGS_ID, version |-> "1.0.0", compressionQuality |-> "standard",
   premiumFeatures |-> "undefined"]

NoLoc ==
  [op |-> "none", photoDB |-> NoPhoto, imageBlob |-> NoBlob, thumbnailBlob |-> NoBlob,
   newThumbnailBlobId |-> 0, count |-> 0, lastPhotoDate |-> NoDate,
   found |-> FALSE, prefecture |-> NoPref, db |-> 0]

\* WordSystemData, the data of the second application: an object with an
\* optional words and an optional history array, or undefined (not given)
WordSystem(hasWords, words, hasHistory, history) ==
  [given |-> TRUE, hasWords |-> hasWords, words |-> words,
   hasHistory |-> hasHistory, history |-> history]
NoWordSystem ==
  [given |-> FALSE, hasWords |-> FALSE, words |-> <<>>, hasHistory |-> FALSE, history |-> <<>>]

\* what getWordSystemData returns: null, or the data
NullWords == [isNull |-> TRUE, data |-> NoWordSystem]

\* A JavaScript number that is a quotient of two integers, in lowest terms.
RECURSIVE GCD(_, _)
GCD(a, b) == IF b = 0 THEN a ELSE GCD(b, a % b)
Quotient(n, d) ==
  LET g == GCD(n, d) IN IF g = 0 THEN [num |-> 0, den |-> 1] ELSE [num |-> n \div g, den |-> d \div g]
\* the conversion of a number to the unsigned long of canvas.width and
\* canvas.height: its integer part
ToUnsignedLong(q) == q.num \div q.den

\* what compressImage was called with, the size resizeImage computed and the
\* size of the canvas the image was drawn on; nothing before the first call
NoImage ==
  [img |-> [width |-> 0, height |-> 0], quality |-> "",
   size |-> [width |-> 0, height |-> Quotient(0, 1)],
   canvas |-> [width |-> 0, height |-> 0]]

\* what generateThumbnail was called with, the source square it computed (in
\* units of 1/SubPixel of a pixel), the canvas it drew on, and the same for a
\* second run on the same source and crop; nothing before the first call
NoThumbnail ==
  LET none == [cropX |-> 0, cropY |-> 0, cropSize |-> 0, canvas |-> [width |-> 0, height |-> 0]]
  IN [img |-> [width |-> 0, height |-> 0], cropInfo |-> NoCrop, quality |-> "",
      square |-> none, runs |-> 0, again |-> none, qualityAgain |-> ""]

\* the object URLs a run of the codec created and revoked, and what the browser
\* did in that run: whether the image loaded, whether the canvas gave a 2d
\* context, whether toBlob produced a blob
NoUrls ==
  [created |-> 0, revoked |-> 0, env |-> [decodes |-> TRUE, context |-> TRUE, encodes |-> TRUE]]

\* the outcome of the operation a caller ran last: its name, whether it returned
\* or threw, the photo id it was about, the number of the document it read, and
\* the error importAllData passed to console.error; for the word-system
\* accessor, the data it was called with and what it returned; for compressImage
\* and generateThumbnail, the sizes; for getDatabase, the handle it returned
NoLast ==
  [op |-> "none", ok |-> TRUE, id |-> 0, doc |-> 0, error |-> "",
   words |-> NoWordSystem, read |-> NullWords, image |-> NoImage,
   thumbnail |-> NoThumbnail, urls |-> NoUrls, handle |-> 0]
Outcome(op, ok, id, doc) == [NoLast EXCEPT !.op = op, !.ok = ok, !.id = id, !.doc = doc]

(***************************************************************************)
(* Reads of the photo repository.                                          *)
(***************************************************************************)
\* dbToPhoto throws unless both blobs of the record are in the images collection
dbToPhotoThrows(imgs, photoDB) ==
  \/ photoDB.imageBlobId \notin DOMAIN imgs
  \/ photoDB.thumbnailBlobId \notin DOMAIN imgs

\* dbToPhoto handing the stored crop on as it is
dbToPhotoCropInfoAsStored(cropInfo) == cropInfo

\* if (db.cropInfo) { if ('size' in crop) {x, y, width: size, height: size}
\* else if ('width' in crop && 'height' in crop) {x, y, width, height} };
\* undefined otherwise
dbToPhotoCropInfo(cropInfo) ==
  CASE cropInfo.shape = "none" -> NoCrop
    [] cropInfo.shape \in {"size", "both"} ->
         RectCrop(cropInfo.x, cropInfo.y, cropInfo.size, cropInfo.size)
    [] cropInfo.shape = "rect" ->
         RectCrop(cropInfo.x, cropInfo.y, cropInfo.width, cropInfo.height)
    [] OTHER -> NoCrop

\* dbToPhoto of a record with both blobs: the fields of the record (the blobs
\* as object URLs, which the record's blob ids stand for) with the crop converted
dbToPhoto(photoDB) == [photoDB EXCEPT !.cropInfo = dbToPhotoCropInfo(photoDB.cropInfo)]

\* the keys of S in ascending order: the order in which getAll and
\* getAllFromIndex return the records of a collection
RECURSIVE InKeyOrder(_)
InKeyOrder(S) ==
  IF S = {} THEN <<>>
  ELSE LET least == CHOOSE k \in S : \A other \in S : k <= other
       IN  <<least>> \o InKeyOrder(S \ {least})

\* a comparator that returns dateA - dateB
CompareOldestFirst(a, b) == a.takenAt - b.takenAt

\* the comparator of photos.sort: dateB - dateA
Compare(a, b) == b.takenAt - a.takenAt

\* x put into a sorted list, before the first record the comparator orders after
\* it (a positive result) and behind the records it ties with
RECURSIVE Insert(_, _)
Insert(x, sorted) ==
  IF Len(sorted) = 0 THEN <<x>>
  ELSE IF Compare(sorted[1], x) > 0 THEN <<x>> \o sorted
  ELSE <<sorted[1]>> \o Insert(x, Tail(sorted))

\* Array.prototype.sort with that comparator: a stable sort
RECURSIVE SortPhotos(_)
SortPhotos(records) ==
  IF Len(records) = 0 THEN <<>>
  ELSE Insert(records[Len(records)], SortPhotos(SubSeq(records, 1, Len(records) - 1)))

\* a variant of the loop that ends at the first record that fails to convert
RECURSIVE ConvertUntilFailure(_, _)
ConvertUntilFailure(imgs, records) ==
  IF Len(records) = 0 \/ dbToPhotoThrows(imgs, records[1]) THEN <<>>
  ELSE <<dbToPhoto(records[1])>> \o ConvertUntilFailure(imgs, Tail(records))

\* for (const photoDB of photos) { try { result.push(await dbToPhoto(photoDB)) }
\* catch (error) { console.error(...) } }
RECURSIVE ConvertEach(_, _)
ConvertEach(imgs, records) ==
  IF Len(records) = 0 THEN <<>>
  ELSE (IF dbToPhotoThrows(imgs, records[1]) THEN <<>> ELSE <<dbToPhoto(records[1])>>)
       \o ConvertEach(imgs, Tail(records))

\* the records of a collection under the keys S, in key order
RecordsOf(coll, S) == LET keys == InKeyOrder(S) IN [i \in 1..Len(keys) |-> coll[keys[i]]]

\* getAllPhotos: every record, sorted, those that fail to convert skipped
getAllPhotos(phs, imgs) ==
  ConvertEach(imgs, SortPhotos(RecordsOf(phs, DOMAIN phs)))

\* getPhotosByPrefectureId: the records of the prefectureId index, sorted, those
\* that fail to convert skipped
getPhotosByPrefectureId(phs, imgs, prefectureId) ==
  ConvertEach(imgs, SortPhotos(RecordsOf(phs,
      {i \in DOMAIN phs : phs[i].prefectureId = prefectureId})))

\* getPhotoById: what the caller gets, a photo or null; no statement of it
\* throws past its catch block
getPhotoById(phs, imgs, id) ==
  IF id \notin DOMAIN phs
  THEN [threw |-> FALSE, isNull |-> TRUE, photo |-> NoPhoto]
  ELSE IF dbToPhotoThrows(imgs, phs[id])
  THEN [threw |-> FALSE, isNull |-> TRUE, photo |-> NoPhoto]
  ELSE [threw |-> FALSE, isNull |-> FALSE, photo |-> dbToPhoto(phs[id])]

(***************************************************************************)
(* Steps shared by the operations.                                         *)
(***************************************************************************)
Goto(p, label) == pc' = [pc EXCEPT ![p] = label]

\* the operation of p ends: it returns (ok) or throws
Finish(p, ok) ==
  /\ pc' = [pc EXCEPT ![p] = "idle"]
  /\ last' = [last EXCEPT ![p] = Outcome(loc[p].op, ok, loc[p].photoDB.id, 0)]
  /\ loc' = [loc EXCEPT ![p] = NoLoc]

\* no operation is between its first and its last storage request
Quiescent == \A p \in Procs : pc[p] = "idle"

(***************************************************************************)
(* createPhoto(input, imageBlob, thumbnailBlob)                            *)
(***************************************************************************)
\* three calls of generateId, and the record photoToDB builds from the input
createPhotoStart(p, prefectureId, takenAt, cropInfo) ==
  /\ pc[p] = "idle"
  /\ nextId' = nextId + 3
  /\ loc' = [loc EXCEPT ![p] =
       [NoLoc EXCEPT !.op = "createPhoto",
                     !.imageBlob = ImageBlob,
                     !.thumbnailBlob = ThumbnailBlob,
                     !.photoDB = [id |-> nextId + 1,
                                  prefectureId |-> prefectureId,
                                  imageBlobId |-> nextId + 2,
                                  thumbnailBlobId |-> nextId + 3,
                                  memo |-> "",
                                  takenAt |-> takenAt,
                                  cropInfo |-> cropInfo,
                                  favorite |-> FALSE]]]
  /\ last' = [last EXCEPT ![p] = NoLast]
  /\ Goto(p, "cp_putImage")
  /\ UNCHANGED <<store, database>>

\* await db.put('images', imageBlob, imageBlobId)
createPhotoPutImage(p) ==
  /\ pc[p] = "cp_putImage"
  /\ images' = Put(images, loc[p].photoDB.imageBlobId, loc[p].imageBlob)
  /\ Goto(p, "cp_putThumbnail")
  /\ UNCHANGED <<photos, prefectures, settings, loc, last, nextId, database>>

\* await db.put('images', thumbnailBlob, thumbnailBlobId)
createPhotoPutThumbnail(p) ==
  /\ pc[p] = "cp_putThumbnail"
  /\ images' = Put(images, loc[p].photoDB.thumbnailBlobId, loc[p].thumbnailBlob)
  /\ Goto(p, "cp_putPhoto")
  /\ UNCHANGED <<photos, prefectures, settings, loc, last, nextId, database>>

\* await db.put('photos', photoDB)
createPhotoPutPhoto(p) ==
  /\ pc[p] = "cp_putPhoto"
  /\ photos' = Put(photos, loc[p].photoDB.id, loc[p].photoDB)
  /\ Goto(p, "count_list")
  /\ UNCHANGED <<prefectures, settings, images, loc, last, nextId, database>>

(***************************************************************************)
(* The recount both createPhoto and deletePhoto end with.                  *)
(***************************************************************************)
\* const allPhotos = await getPhotosByPrefectureId(prefectureId); the count
\* update is given allPhotos.length and allPhotos[0]?.takenAt
countList(p) ==
  /\ pc[p] = "count_list"
  /\ LET allPhotos == getPhotosByPrefectureId(photos, images, loc[p].photoDB.prefectureId)
     IN  loc' = [loc EXCEPT ![p].count = Len(allPhotos),
                            ![p].lastPhotoDate = IF Len(allPhotos) = 0 THEN NoDate
                                                 ELSE allPhotos[1].takenAt]
  /\ Goto(p, "count_get")
  /\ UNCHANGED <<store, last, nextId, database>>

\* updatePrefecturePhotoCount: const prefecture = await getPrefectureById(prefectureId)
countGet(p) ==
  /\ pc[p] = "count_get"
  /\ LET id == loc[p].photoDB.prefectureId
     IN  loc' = [loc EXCEPT ![p].found = (id \in DOMAIN prefectures),
                            ![p].prefecture = IF id \in DOMAIN prefectures
                                              THEN prefectures[id] ELSE NoPref]
  /\ Goto(p, "count_put")
  /\ UNCHANGED <<store, last, nextId, database>>

\* a variant that guards the count the way the date is guarded: a count of 0 is
\* not written
WithPhotoCountIfTruthy(prefecture, photoCount, lastPhotoDate) ==
  [prefecture EXCEPT !.photoCount = IF photoCount # 0 THEN photoCount ELSE @,
                     !.lastPhotoDate = IF lastPhotoDate # NoDate THEN lastPhotoDate ELSE @]

\* the record updatePrefecturePhotoCount writes back: the count always, the date
\* only when one was passed
WithPhotoCount(prefecture, photoCount, lastPhotoDate) ==
  [prefecture EXCEPT !.photoCount = photoCount,
                     !.lastPhotoDate = IF lastPhotoDate # NoDate THEN lastPhotoDate ELSE @]

\* a count update that reads the record anew in the transaction that writes it
countPutOnFreshRecord(p) ==
  /\ pc[p] = "count_put"
  /\ prefectures' =
       IF loc[p].found
       THEN Put(prefectures, loc[p].prefecture.id,
                WithPhotoCount(prefectures[loc[p].prefecture.id],
                               Len(getPhotosByPrefectureId(photos, images, loc[p].prefecture.id)),
                               loc[p].lastPhotoDate))
       ELSE prefectures
  /\ IF loc[p].op = "createPhoto"
     THEN Goto(p, "cp_return") /\ UNCHANGED <<loc, last>>
     ELSE Finish(p, TRUE)
  /\ UNCHANGED <<photos, settings, images, nextId, database>>

\* if (prefecture) { ...; await upsertPrefecture(prefecture) }
countPut(p) ==
  /\ pc[p] = "count_put"
  /\ prefectures' =
       IF loc[p].found
       THEN Put(prefectures, loc[p].prefecture.id,
                WithPhotoCount(loc[p].prefecture, loc[p].count, loc[p].lastPhotoDate))
       ELSE prefectures
  /\ IF loc[p].op = "createPhoto"
     THEN Goto(p, "cp_return") /\ UNCHANGED <<loc, last>>
     ELSE Finish(p, TRUE)
  /\ UNCHANGED <<photos, settings, images, nextId, database>>

\* return await dbToPhoto(photoDB)
createPhotoReturn(p) ==
  /\ pc[p] = "cp_return"
  /\ Finish(p, ~dbToPhotoThrows(images, loc[p].photoDB))
  /\ UNCHANGED <<store, nextId, database>>

(***************************************************************************)
(* updatePrefectureTotalManholes(prefectureId, totalManholes)              *)
(***************************************************************************)
\* const prefecture = await getPrefectureById(prefectureId);
\* if (prefecture) { prefecture.totalManholes = totalManholes; ... }
totalManholesGet(p, prefectureId, totalManholes) ==
  /\ pc[p] = "idle"
  /\ IF prefectureId \in DOMAIN prefectures
     THEN /\ loc' = [loc EXCEPT ![p] =
                       [NoLoc EXCEPT !.op = "updatePrefectureTotalManholes",
                                     !.found = TRUE,
                                     !.prefecture = [prefectures[prefectureId] EXCEPT
                                                       !.totalManholes = totalManholes]]]
          /\ last' = [last EXCEPT ![p] = NoLast]
          /\ Goto(p, "tm_put")
     ELSE /\ last' = [last EXCEPT ![p] = Outcome("updatePrefectureTotalManholes", TRUE, 0, 0)]
          /\ UNCHANGED <<pc, loc>>
  /\ UNCHANGED <<store, nextId, database>>

\* await upsertPrefecture(prefecture)
totalManholesPut(p) ==
  /\ pc[p] = "tm_put"
  /\ prefectures' = Put(prefectures, loc[p].prefecture.id, loc[p].prefecture)
  /\ Finish(p, TRUE)
  /\ UNCHANGED <<photos, settings, images, nextId, database>>

(***************************************************************************)
(* deletePhoto(id)                                                         *)
(***************************************************************************)
\* a variant that returns for an id without a record instead of throwing
deletePhotoStartLenient(p, id) ==
  /\ pc[p] = "idle"
  /\ IF id \in DOMAIN photos
     THEN /\ loc' = [loc EXCEPT ![p] = [NoLoc EXCEPT !.op = "deletePhoto", !.photoDB = photos[id]]]
          /\ last' = [last EXCEPT ![p] = NoLast]
          /\ Goto(p, "dp_deleteImage")
     ELSE /\ last' = [last EXCEPT ![p] = Outcome("deletePhoto", TRUE, id, 0)]
          /\ UNCHANGED <<pc, loc>>
  /\ UNCHANGED <<store, nextId, database>>

\* const photoDB = await db.get('photos', id); if (!photoDB) throw
deletePhotoStart(p, id) ==
  /\ pc[p] = "idle"
  /\ IF id \in DOMAIN photos
     THEN /\ loc' = [loc EXCEPT ![p] = [NoLoc EXCEPT !.op = "deletePhoto", !.photoDB = photos[id]]]
          /\ last' = [last EXCEPT ![p] = NoLast]
          /\ Goto(p, "dp_deleteImage")
     ELSE /\ last' = [last EXCEPT ![p] = Outcome("deletePhoto", FALSE, id, 0)]
          /\ UNCHANGED <<pc, loc>>
  /\ UNCHANGED <<store, nextId, database>>

\* await db.delete('images', photoDB.imageBlobId)
deletePhotoDeleteImage(p) ==
  /\ pc[p] = "dp_deleteImage"
  /\ images' = Delete(images, loc[p].photoDB.imageBlobId)
  /\ Goto(p, "dp_deleteThumbnail")
  /\ UNCHANGED <<photos, prefectures, settings, loc, last, nextId, database>>

\* a variant whose second delete names the image blob again
deletePhotoDeleteImageTwice(p) ==
  /\ pc[p] = "dp_deleteThumbnail"
  /\ images' = Delete(images, loc[p].photoDB.imageBlobId)
  /\ Goto(p, "dp_deletePhoto")
  /\ UNCHANGED <<photos, prefectures, settings, loc, last, nextId, database>>

\* await db.delete('images', photoDB.thumbnailBlobId)
deletePhotoDeleteThumbnail(p) ==
  /\ pc[p] = "dp_deleteThumbnail"
  /\ images' = Delete(images, loc[p].photoDB.thumbnailBlobId)
  /\ Goto(p, "dp_deletePhoto")
  /\ UNCHANGED <<photos, prefectures, settings, loc, last, nextId, database>>

\* await db.delete('photos', id)
deletePhotoDeletePhoto(p) ==
  /\ pc[p] = "dp_deletePhoto"
  /\ photos' = Delete(photos, loc[p].photoDB.id)
  /\ Goto(p, "count_list")
  /\ UNCHANGED <<prefectures, settings, images, loc, last, nextId, database>>

(***************************************************************************)
(* The thumbnail re-crop save of the photo detail page (handleSaveCrop).   *)
(***************************************************************************)
\* the page holds a photo and its original image, which getPhotoById returned;
\* processImage makes the new thumbnail or throws; then the record is read
saveCropStart(p, id, cropInfo, encodes) ==
  /\ pc[p] = "idle"
  /\ ~getPhotoById(photos, images, id).isNull
  /\ IF encodes
     THEN /\ loc' = [loc EXCEPT ![p] =
                [NoLoc EXCEPT !.op = "saveCrop",
                              !.photoDB = [photos[id] EXCEPT !.cropInfo = cropInfo],
                              !.thumbnailBlob = RecropBlob]]
          /\ last' = [last EXCEPT ![p] = NoLast]
          /\ Goto(p, "sc_deleteThumbnail")
     ELSE /\ last' = [last EXCEPT ![p] = Outcome("saveCrop", FALSE, id, 0)]
          /\ UNCHANGED <<pc, loc>>
  /\ UNCHANGED <<store, nextId, database>>

\* await db.delete('images', photoDB.thumbnailBlobId)
saveCropDeleteThumbnail(p) ==
  /\ pc[p] = "sc_deleteThumbnail"
  /\ images' = Delete(images, loc[p].photoDB.thumbnailBlobId)
  /\ Goto(p, "sc_putThumbnail")
  /\ UNCHANGED <<photos, prefectures, settings, loc, last, nextId, database>>

\* const newThumbnailBlobId = crypto.randomUUID();
\* await db.put('images', thumbnailBlob, newThumbnailBlobId)
saveCropPutThumbnail(p) ==
  /\ pc[p] = "sc_putThumbnail"
  /\ nextId' = nextId + 1
  /\ images' = Put(images, nextId + 1, loc[p].thumbnailBlob)
  /\ loc' = [loc EXCEPT ![p].newThumbnailBlobId = nextId + 1]
  /\ Goto(p, "sc_putPhoto")
  /\ UNCHANGED <<photos, prefectures, settings, last, database>>

\* photoDB.thumbnailBlobId = newThumbnailBlobId; photoDB.cropInfo = cropInfo;
\* await db.put('photos', photoDB)
saveCropPutPhoto(p) ==
  /\ pc[p] = "sc_putPhoto"
  /\ photos' = Put(photos, loc[p].photoDB.id,
                   [loc[p].photoDB EXCEPT !.thumbnailBlobId = loc[p].newThumbnailBlobId])
  /\ Goto(p, "sc_reload")
  /\ UNCHANGED <<prefectures, settings, images, loc, last, nextId, database>>

\* const updatedPhoto = await getPhotoById(photo.id)
saveCropReload(p) ==
  /\ pc[p] = "sc_reload"
  /\ Finish(p, TRUE)
  /\ UNCHANGED <<store, nextId, database>>

(***************************************************************************)
(* updatePhoto(photo)                                                      *)
(***************************************************************************)
\* the Photo objects passed to updatePhoto: favorite is true, false or undefined
PhotoInputs(ids) ==
  [id : ids, prefectureId : PREFECTURE_LIST, memo : {"", "memo"},
   takenAt : Dates, cropInfo : {NoCrop}, favorite : {"true", "false", "undefined"}]

\* photo.favorite || false
FavoriteOrFalse(favorite) == favorite = "true"

\* a variant that copies every field of the passed photo into the record
updatePhotoStartAllFields(p, photo) ==
  /\ pc[p] = "idle"
  /\ IF photo.id \in DOMAIN photos
     THEN /\ loc' = [loc EXCEPT ![p] =
                [NoLoc EXCEPT !.op = "updatePhoto",
                              !.photoDB = [photos[photo.id] EXCEPT
                                             !.prefectureId = photo.prefectureId,
                                             !.takenAt = photo.takenAt,
                                             !.cropInfo = photo.cropInfo,
                                             !.memo = photo.memo,
                                             !.favorite = FavoriteOrFalse(photo.favorite)]]]
          /\ last' = [last EXCEPT ![p] = NoLast]
          /\ Goto(p, "up_put")
     ELSE /\ last' = [last EXCEPT ![p] = Outcome("updatePhoto", FALSE, photo.id, 0)]
          /\ UNCHANGED <<pc, loc>>
  /\ UNCHANGED <<store, nextId, database>>

\* const photoDB = await db.get('photos', photo.id); if (!photoDB) throw;
\* photoDB.memo = photo.memo; photoDB.favorite = photo.favorite || false
updatePhotoStart(p, photo) ==
  /\ pc[p] = "idle"
  /\ IF photo.id \in DOMAIN photos
     THEN /\ loc' = [loc EXCEPT ![p] =
                [NoLoc EXCEPT !.op = "updatePhoto",
                              !.photoDB = [photos[photo.id] EXCEPT
                                             !.memo = photo.memo,
                                             !.favorite = FavoriteOrFalse(photo.favorite)]]]
          /\ last' = [last EXCEPT ![p] = NoLast]
          /\ Goto(p, "up_put")
     ELSE /\ last' = [last EXCEPT ![p] = Outcome("updatePhoto", FALSE, photo.id, 0)]
          /\ UNCHANGED <<pc, loc>>
  /\ UNCHANGED <<store, nextId, database>>

\* await db.put('photos', photoDB)
updatePhotoPut(p) ==
  /\ pc[p] = "up_put"
  /\ photos' = Put(photos, loc[p].photoDB.id, loc[p].photoDB)
  /\ Finish(p, TRUE)
  /\ UNCHANGED <<prefectures, settings, images, nextId, database>>

(***************************************************************************)
(* A storage request that fails.                                           *)
(***************************************************************************)
WriteLabels ==
  {"cp_putImage", "cp_putThumbnail", "cp_putPhoto", "count_put",
   "dp_deleteImage", "dp_deleteThumbnail", "dp_deletePhoto",
   "sc_deleteThumbnail", "sc_putThumbnail", "sc_putPhoto", "up_put"}

\* the awaited put or delete rejects (quota, storage unavailable): nothing is
\* written, the operation throws and none of its later requests is made
storageFails(p) ==
  /\ pc[p] \in WriteLabels
  /\ pc[p] = "count_put" => loc[p].found
  /\ Finish(p, FALSE)
  /\ UNCHANGED <<store, nextId, database>>

(***************************************************************************)
(* initializePrefectures and getSettings.                                  *)
(***************************************************************************)
\* the record initializePrefectures puts for a catalog entry
SeedRecord(id) == [id |-> id, photoCount |-> 0, lastPhotoDate |-> NoDate, totalManholes |-> NoNumber]

\* a variant without the count check: the catalog records are always put
SeededAlways(prefs) ==
  [k \in DOMAIN prefs \cup PREFECTURE_LIST |->
     IF k \in PREFECTURE_LIST THEN SeedRecord(k) ELSE prefs[k]]

\* the prefectures collection after initializePrefectures
Seeded(prefs) ==
  IF Cardinality(DOMAIN prefs) >= Cardinality(PREFECTURE_LIST)
  THEN prefs
  ELSE [k \in DOMAIN prefs \cup PREFECTURE_LIST |->
          IF k \in PREFECTURE_LIST THEN SeedRecord(k) ELSE prefs[k]]

initializePrefectures(p) ==
  /\ pc[p] = "idle"
  /\ prefectures' = Seeded(prefectures)
  /\ last' = [last EXCEPT ![p] = Outcome("initializePrefectures", TRUE, 0, 0)]
  /\ UNCHANGED <<photos, settings, images, pc, loc, nextId, database>>

\* getSettings: the stored record, or the defaults written on first read
getSettings(p) ==
  /\ pc[p] = "idle"
  /\ settings' = IF SETTINGS_ID \in DOMAIN settings
                 THEN settings
                 ELSE Put(settings, SETTINGS_ID, DefaultSettings)
  /\ last' = [last EXCEPT ![p] = Outcome("getSettings", TRUE, 0, 0)]
  /\ UNCHANGED <<photos, prefectures, images, pc, loc, nextId, database>>

(***************************************************************************)
(* updateSettings and the license service.                                 *)
(***************************************************************************)
\* the tiers the settings page offers
QualityInputs == {"high", "standard", "low"}

\* the stored record, or the defaults getSettings writes and returns
SettingsOrDefault(sett) ==
  IF SETTINGS_ID \in DOMAIN sett THEN sett[SETTINGS_ID] ELSE DefaultSettings

\* updateSettings(settings): await db.put('settings', settingsToDB(settings))
updateSettings(p, newSettings) ==
  /\ pc[p] = "idle"
  /\ settings' = Put(settings, newSettings.id, newSettings)
  /\ last' = [last EXCEPT ![p] = Outcome("updateSettings", TRUE, 0, 0)]
  /\ UNCHANGED <<photos, prefectures, images, pc, loc, nextId, database>>

\* the settings page: const settings = await getSettings();
\* await updateSettings({...settings, compressionQuality})
changeQuality(p, quality) ==
  updateSettings(p, [SettingsOrDefault(settings) EXCEPT !.compressionQuality = quality])

\* activatePremiumFeatures with a valid key, deactivatePremiumFeatures:
\* getSettings, then updateSettings({...settings, premiumFeatures})
setPremiumFeatures(p, premiumFeatures) ==
  updateSettings(p, [SettingsOrDefault(settings) EXCEPT !.premiumFeatures = premiumFeatures])

(***************************************************************************)
(* The backup document.  A parsed document is a record: whether the text   *)
(* parses as JSON, its version and formatVersion fields ("" when absent),  *)
(* the value of apps['manhole-app'] (app), the value of apps['word-system'] *)
(* (wordSystem) and the top-level photos, prefectures, settings and images *)
(* fields (top).  A payload says for each of its four fields whether it is *)
(* there.                                                                  *)
(***************************************************************************)
EXPORT_VERSION == "2.0.0"

Payload(hasPhotos, phs, hasPrefectures, prefs, hasSettings, sett, hasImages, imgs) ==
  [present |-> TRUE,
   hasPhotos |-> hasPhotos, photos |-> phs,
   hasPrefectures |-> hasPrefectures, prefectures |-> prefs,
   hasSettings |-> hasSettings, settings |-> sett,
   hasImages |-> hasImages, images |-> imgs]

NoPayload ==
  [present |-> FALSE,
   hasPhotos |-> FALSE, photos |-> <<>>,
   hasPrefectures |-> FALSE, prefectures |-> <<>>,
   hasSettings |-> FALSE, settings |-> DefaultSettings,
   hasImages |-> FALSE, images |-> <<>>]

RECURSIVE SetToSeq(_)
SetToSeq(S) ==
  IF S = {} THEN <<>>
  ELSE LET x == CHOOSE y \in S : TRUE IN <<x>> \o SetToSeq(S \ {x})

\* db.getAll of a collection
GetAll(coll) == LET keys == SetToSeq(DOMAIN coll) IN [i \in 1..Len(keys) |-> coll[keys[i]]]

\* one entry of images[]: the key, the base64 text and the type, 'image/jpeg'
\* standing in for an empty type
ImageEntry(id, blob) ==
  [id |-> id, data |-> blobToBase64(blob),
   type |-> IF blob.type = "" THEN "image/jpeg" ELSE blob.type]

\* exportAllData: the document JSON.stringify writes and JSON.parse reads back
exportAllData(phs, prefs, sett, imgs) ==
  [parses |-> TRUE,
   version |-> EXPORT_VERSION,
   formatVersion |-> "",
   app |-> Payload(TRUE, GetAll(phs),
                   TRUE, GetAll(prefs),
                   TRUE, IF SETTINGS_ID \in DOMAIN sett THEN sett[SETTINGS_ID] ELSE DefaultSettings,
                   TRUE, LET keys == SetToSeq(DOMAIN imgs)
                         IN  [i \in 1..Len(keys) |-> ImageEntry(keys[i], imgs[keys[i]])]),
   wordSystem |-> NoWordSystem,
   top |-> NoPayload]

(***************************************************************************)
(* importAllData(jsonData)                                                 *)
(***************************************************************************)
\* a variant without the version check
HasVersionMarkerUnchecked(doc) == TRUE

\* a variant that accepts the one version the export writes
HasVersionMarkerCurrent(doc) == doc.version = EXPORT_VERSION

\* if (!importData.version) throw
HasVersionMarker(doc) == doc.version # ""

\* the document is refused before the transaction is opened
ImportRejects(doc) ==
  \/ ~doc.parses
  \/ ~HasVersionMarker(doc)
  \/ ~doc.app.present /\ ~(doc.top.hasPhotos /\ doc.top.hasPrefectures)

\* a variant that takes the v1 fields as they are, without the two defaults
ManholeAppDataAsGiven(doc) ==
  IF doc.app.present
  THEN doc.app
  ELSE Payload(TRUE, doc.top.photos,
               TRUE, doc.top.prefectures,
               doc.top.hasSettings, doc.top.settings,
               doc.top.hasImages, doc.top.images)

\* manholeAppData: the v2 namespace as it is, or the v1 fields with the default
\* settings and an empty images array where they are absent
ManholeAppData(doc) ==
  IF doc.app.present
  THEN doc.app
  ELSE Payload(TRUE, doc.top.photos,
               TRUE, doc.top.prefectures,
               TRUE, IF doc.top.hasSettings THEN doc.top.settings ELSE DefaultSettings,
               TRUE, IF doc.top.hasImages THEN doc.top.images ELSE <<>>)

\* the number of leading images[] entries base64ToBlob converts
RECURSIVE Decodable(_)
Decodable(entries) ==
  IF Len(entries) = 0 \/ AtobFails(entries[1].data) THEN 0
  ELSE 1 + Decodable(Tail(entries))

\* coll after put(records[1]), ..., put(records[n]) under the key KeyOf gives
RECURSIVE PutAll(_, _, _)
PutAll(coll, records, n) ==
  IF n = 0 THEN coll
  ELSE Put(PutAll(coll, records, n - 1), records[n].id, records[n])

RECURSIVE PutImages(_, _, _)
PutImages(coll, entries, n) ==
  IF n = 0 THEN coll
  ELSE Put(PutImages(coll, entries, n - 1), entries[n].id,
           base64ToBlob(entries[n].data, entries[n].type))

\* a variant of clear() that leaves the records where they are
ClearedNot(coll) == coll

\* await tx.objectStore(name).clear()
Cleared(coll) == Empty

\* The four collections after importAllData, whether it returned, and the error
\* its catch block logged ("" for none).  A storage request that fails aborts
\* the transaction, which rolls back.  An exception thrown between two requests
\* (iterating an absent array, atob) is caught by the catch block, which does not
\* abort: the transaction commits what was requested before the exception.
ImportResult(phs, prefs, sett, imgs, doc, requestFails) ==
  IF ImportRejects(doc)
  THEN [ok |-> FALSE, error |-> IF doc.parses THEN "InvalidFormat" ELSE "SyntaxError",
        photos |-> phs, prefectures |-> prefs, settings |-> sett, images |-> imgs]
  ELSE IF requestFails
  THEN [ok |-> FALSE, error |-> "RequestError",
        photos |-> phs, prefectures |-> prefs, settings |-> sett, images |-> imgs]
  ELSE LET data == ManholeAppData(doc)
           n == IF data.hasImages THEN Decodable(data.images) ELSE 0
           imagesDone == data.hasImages /\ n = Len(data.images)
           photosDone == imagesDone /\ data.hasPhotos
           prefecturesDone == photosDone /\ data.hasPrefectures
       IN  [ok |-> prefecturesDone,
            error |-> IF prefecturesDone THEN ""
                      ELSE IF data.hasImages /\ ~imagesDone THEN "InvalidCharacterError"
                      ELSE "TypeError",
            images |-> IF data.hasImages
                       THEN PutImages(Cleared(imgs), data.images, n) ELSE Cleared(imgs),
            photos |-> IF photosDone
                       THEN PutAll(Cleared(phs), data.photos, Len(data.photos))
                       ELSE Cleared(phs),
            prefectures |-> IF prefecturesDone
                            THEN PutAll(Cleared(prefs), data.prefectures, Len(data.prefectures))
                            ELSE Cleared(prefs),
            settings |-> IF prefecturesDone /\ data.hasSettings
                         THEN Put(Cleared(sett), data.settings.id, data.settings)
                         ELSE Cleared(sett)]

(***************************************************************************)
(* The documents the import is run on.                                     *)
(***************************************************************************)
DocPhotoA ==
  [id |-> 101, prefectureId |-> "01", imageBlobId |-> 111, thumbnailBlobId |-> 112,
   memo |-> "", takenAt |-> 1, cropInfo |-> NoCrop, favorite |-> FALSE]
DocPhotoB ==
  [id |-> 102, prefectureId |-> "02", imageBlobId |-> 113, thumbnailBlobId |-> 114,
   memo |-> "memo", takenAt |-> 2, cropInfo |-> RectCrop(25, 25, 50, 50), favorite |-> TRUE]

DocPref(id, n, d) == [id |-> id, photoCount |-> n, lastPhotoDate |-> d, totalManholes |-> NoNumber]

DocSettings ==
  [id |-> SETTINGS_ID, version |-> "1.0.0", compressionQuality |-> "high",
   premiumFeatures |-> "undefined"]

UntypedBlob == [bytes |-> <<0>>, type |-> ""]

DocEntry(id, blob) == [id |-> id, data |-> Base64Encode(blob.bytes), type |-> blob.type]
\* an entry whose data has a character outside the base64 alphabet
BadEntry(id) == [id |-> id, data |-> <<63, 99, 0, 0>>, type |-> "image/jpeg"]

PhotosAB == <<DocPhotoA, DocPhotoB>>
PrefsAB == <<DocPref("01", 1, 1), DocPref("02", 1, 2)>>
ImagesAB ==
  <<DocEntry(111, ImageBlob), DocEntry(112, ThumbnailBlob),
    DocEntry(113, ImageBlob), DocEntry(114, RecropBlob)>>
ImagesA == <<DocEntry(111, ImageBlob), DocEntry(112, ThumbnailBlob)>>

DocPayloads ==
  << \* 1: a complete backup of two photos in two regions
     Payload(TRUE, PhotosAB, TRUE, PrefsAB, TRUE, DocSettings, TRUE, ImagesAB),
     \* 2: one photo, and only its region
     Payload(TRUE, <<DocPhotoA>>, TRUE, <<DocPref("01", 1, 1)>>, TRUE, DocSettings, TRUE, ImagesA),
     \* 3: no settings
     Payload(TRUE, PhotosAB, TRUE, PrefsAB, FALSE, DefaultSettings, TRUE, ImagesAB),
     \* 4: no images array
     Payload(TRUE, PhotosAB, TRUE, PrefsAB, TRUE, DocSettings, FALSE, <<>>),
     \* 5: no photos array
     Payload(FALSE, <<>>, TRUE, PrefsAB, TRUE, DocSettings, TRUE, ImagesAB),
     \* 6: no prefectures array
     Payload(TRUE, PhotosAB, FALSE, <<>>, TRUE, DocSettings, TRUE, ImagesAB),
     \* 7: the second image cannot be decoded
     Payload(TRUE, <<DocPhotoA>>, TRUE, <<DocPref("01", 1, 1)>>, TRUE, DocSettings,
             TRUE, <<DocEntry(111, ImageBlob), BadEntry(112)>>),
     \* 8: an image no photo refers to
     Payload(TRUE, <<DocPhotoA>>, TRUE, PrefsAB, TRUE, DocSettings, TRUE, ImagesAB),
     \* 9: a photo whose thumbnail is not among the images
     Payload(TRUE, <<DocPhotoA>>, TRUE, PrefsAB, TRUE, DocSettings,
             TRUE, <<DocEntry(111, ImageBlob)>>),
     \* 10: a photo whose region is not among the prefectures
     Payload(TRUE, PhotosAB, TRUE, <<DocPref("01", 1, 1)>>, TRUE, DocSettings, TRUE, ImagesAB),
     \* 11: an image with an empty type
     Payload(TRUE, <<DocPhotoA>>, TRUE, PrefsAB, TRUE, DocSettings,
             TRUE, <<DocEntry(111, ImageBlob), DocEntry(112, UntypedBlob)>>),
     \* 12: empty arrays
     Payload(TRUE, <<>>, TRUE, <<>>, TRUE, DocSettings, TRUE, <<>>),
     \* 13: as many regions as the catalog has, one of them not of the catalog
     Payload(TRUE, <<DocPhotoA>>, TRUE, <<DocPref("01", 1, 1), DocPref("99", 0, NoDate)>>,
             TRUE, DocSettings, TRUE, ImagesA) >>

\* the v2 document that carries a payload under apps['manhole-app']
V2Doc(version, formatVersion, payload) ==
  [parses |-> TRUE, version |-> version, formatVersion |-> formatVersion,
   app |-> payload, wordSystem |-> NoWordSystem, top |-> NoPayload]

\* the v1 document that carries the same four values at the top level
V1Doc(version, formatVersion, payload) ==
  [parses |-> TRUE, version |-> version, formatVersion |-> formatVersion,
   app |-> NoPayload, wordSystem |-> NoWordSystem,
   top |-> [payload EXCEPT !.present = FALSE]]

\* a text that is not JSON
GarbageDoc ==
  [parses |-> FALSE, version |-> "", formatVersion |-> "", app |-> NoPayload,
   wordSystem |-> NoWordSystem, top |-> NoPayload]

\* documents 2k-1 and 2k carry payload k as v2 and as v1; then the complete
\* backup as v2 and as v1 with its marker in formatVersion, with the other
\* version value, and with no marker; then the text that does not parse
DocList ==
  [i \in 1..(2 * Len(DocPayloads)) |->
     IF i % 2 = 1 THEN V2Doc("2.0.0", "", DocPayloads[(i + 1) \div 2])
                  ELSE V1Doc("1.0.0", "", DocPayloads[i \div 2])]
  \o << V2Doc("", "2.0.0", DocPayloads[1]), V1Doc("", "1.0.0", DocPayloads[1]),
        V2Doc("1.0.0", "", DocPayloads[1]), V1Doc("2.0.0", "", DocPayloads[1]),
        V2Doc("", "", DocPayloads[1]), V1Doc("", "", DocPayloads[1]),
        GarbageDoc >>

DocIds == 1..Len(DocList)

\* importAllData on document d of the list
importAllData(p, d, requestFails) ==
  /\ pc[p] = "idle"
  /\ LET r == ImportResult(photos, prefectures, settings, images, DocList[d], requestFails)
     IN  /\ photos' = r.photos
         /\ prefectures' = r.prefectures
         /\ settings' = r.settings
         /\ images' = r.images
         /\ last' = [last EXCEPT ![p] =
                       [Outcome("importAllData", r.ok, 0, d) EXCEPT !.error = r.error]]
  /\ UNCHANGED <<pc, loc, nextId, database>>

\* importAllData(await exportAllData()): a backup restored over the store it was made of
exportThenImport(p) ==
  /\ pc[p] = "idle"
  /\ LET doc == exportAllData(photos, prefectures, settings, images)
         r == ImportResult(photos, prefectures, settings, images, doc, FALSE)
     IN  /\ photos' = r.photos
         /\ prefectures' = r.prefectures
         /\ settings' = r.settings
         /\ images' = r.images
         /\ last' = [last EXCEPT ![p] =
                       [Outcome("exportThenImport", r.ok, 0, 0) EXCEPT !.error = r.error]]
  /\ UNCHANGED <<pc, loc, nextId, database>>

(***************************************************************************)
(* The data of the second application in the document.                     *)
(***************************************************************************)
\* the data exportWithWordSystem is called with: none, an empty object, words
\* alone, a history alone, both
WordEntry == [key |-> "key", value |-> "value"]
HistoryEntry == [name |-> "name", timestamp |-> "2024-01-01", words |-> <<WordEntry>>]
WordInputs ==
  {NoWordSystem,
   WordSystem(FALSE, <<>>, FALSE, <<>>),
   WordSystem(TRUE, <<WordEntry, WordEntry>>, FALSE, <<>>),
   WordSystem(FALSE, <<>>, TRUE, <<HistoryEntry>>),
   WordSystem(TRUE, <<>>, TRUE, <<HistoryEntry>>)}

\* a variant that adds the namespace only for data that have words
exportWithWordSystemIfWords(phs, prefs, sett, imgs, wordSystemData) ==
  [parses |-> TRUE,
   version |-> EXPORT_VERSION,
   formatVersion |-> "",
   app |-> Payload(TRUE, GetAll(phs),
                   TRUE, GetAll(prefs),
                   TRUE, IF SETTINGS_ID \in DOMAIN sett THEN sett[SETTINGS_ID] ELSE DefaultSettings,
                   TRUE, LET keys == SetToSeq(DOMAIN imgs)
                         IN  [i \in 1..Len(keys) |-> ImageEntry(keys[i], imgs[keys[i]])]),
   wordSystem |-> IF wordSystemData.given /\ wordSystemData.hasWords
                  THEN wordSystemData ELSE NoWordSystem,
   top |-> NoPayload]

\* exportWithWordSystem: the document of exportAllData, built by the same
\* statements, with ...(wordSystemData && { 'word-system': wordSystemData })
exportWithWordSystem(phs, prefs, sett, imgs, wordSystemData) ==
  [parses |-> TRUE,
   version |-> EXPORT_VERSION,
   formatVersion |-> "",
   app |-> Payload(TRUE, GetAll(phs),
                   TRUE, GetAll(prefs),
                   TRUE, IF SETTINGS_ID \in DOMAIN sett THEN sett[SETTINGS_ID] ELSE DefaultSettings,
                   TRUE, LET keys == SetToSeq(DOMAIN imgs)
                         IN  [i \in 1..Len(keys) |-> ImageEntry(keys[i], imgs[keys[i]])]),
   wordSystem |-> IF wordSystemData.given THEN wordSystemData ELSE NoWordSystem,
   top |-> NoPayload]

\* getWordSystemData: importData.apps?.['word-system'] || null, and null when
\* JSON.parse throws
getWordSystemData(doc) ==
  IF doc.parses /\ doc.wordSystem.given
  THEN [isNull |-> FALSE, data |-> doc.wordSystem]
  ELSE NullWords

\* the documents getWordSystemData is called on besides those just exported:
\* the text that does not parse, a v1 document, a v2 document without the
\* second namespace, a v2 document made elsewhere that has it
WordDocList ==
  << GarbageDoc,
     V1Doc("1.0.0", "", DocPayloads[1]),
     V2Doc("2.0.0", "", DocPayloads[1]),
     [V2Doc("2.0.0", "", DocPayloads[1]) EXCEPT
        !.wordSystem = WordSystem(TRUE, <<WordEntry>>, FALSE, <<>>)] >>

\* getWordSystemData(await exportWithWordSystem(wordSystemData))
exportThenReadWords(p, wordSystemData) ==
  /\ pc[p] = "idle"
  /\ LET doc == exportWithWordSystem(photos, prefectures, settings, images, wordSystemData)
     IN  last' = [last EXCEPT ![p] =
                    [Outcome("exportWithWordSystem", TRUE, 0, 0) EXCEPT
                       !.words = wordSystemData, !.read = getWordSystemData(doc)]]
  /\ UNCHANGED <<store, pc, loc, nextId, database>>

\* getWordSystemData on document d of WordDocList
readWords(p, d) ==
  /\ pc[p] = "idle"
  /\ last' = [last EXCEPT ![p] =
                [Outcome("getWordSystemData", TRUE, 0, d) EXCEPT
                   !.read = getWordSystemData(WordDocList[d])]]
  /\ UNCHANGED <<store, pc, loc, nextId, database>>

(***************************************************************************)
(* getDatabase: if (!dbInstance) { dbInstance = await openDatabase() }      *)
(* return dbInstance                                                       *)
(***************************************************************************)
\* the test of dbInstance: with a handle there it is returned; without one
\* openDatabase is called and the caller waits for it
getDatabaseStart(p) ==
  /\ pc[p] = "idle"
  /\ IF database.dbInstance = 0
     THEN /\ database.opened < MaxOpens
          /\ database' = [database EXCEPT !.opened = @ + 1]
          /\ loc' = [loc EXCEPT ![p] = [NoLoc EXCEPT !.op = "getDatabase",
                                                     !.db = database.opened + 1]]
          /\ last' = [last EXCEPT ![p] = NoLast]
          /\ Goto(p, "gd_open")
     ELSE /\ last' = [last EXCEPT ![p] =
                        [Outcome("getDatabase", TRUE, 0, 0)
                           EXCEPT !.handle = database.dbInstance]]
          /\ UNCHANGED <<pc, loc, database>>
  /\ UNCHANGED <<store, nextId>>

\* the open resolves: dbInstance is assigned the new handle and returned; or it
\* rejects and getDatabase throws, dbInstance left as it is
getDatabaseOpened(p, resolves) ==
  /\ pc[p] = "gd_open"
  /\ IF resolves
     THEN /\ database' = [database EXCEPT !.dbInstance = loc[p].db, !.resolved = @ + 1]
          /\ last' = [last EXCEPT ![p] =
                        [Outcome("getDatabase", TRUE, 0, 0) EXCEPT !.handle = loc[p].db]]
     ELSE /\ last' = [last EXCEPT ![p] = Outcome("getDatabase", FALSE, 0, 0)]
          /\ UNCHANGED database
  /\ pc' = [pc EXCEPT ![p] = "idle"]
  /\ loc' = [loc EXCEPT ![p] = NoLoc]
  /\ UNCHANGED <<store, nextId>>

(***************************************************************************)
(* The image codec: the size of the primary image.                         *)
(***************************************************************************)
MAX_IMAGE_WIDTH_HIGH == 2000
MAX_IMAGE_WIDTH_STANDARD == 2000
MAX_IMAGE_WIDTH_LOW == 1500

getMaxWidth(quality) ==
  CASE quality = "high" -> MAX_IMAGE_WIDTH_HIGH
    [] quality = "standard" -> MAX_IMAGE_WIDTH_STANDARD
    [] quality = "low" -> MAX_IMAGE_WIDTH_LOW
    [] OTHER -> MAX_IMAGE_WIDTH_STANDARD

\* resizeImage scaling the width only
resizeImageWidthOnly(img, maxWidth) ==
  IF img.width > maxWidth
  THEN [width |-> maxWidth, height |-> Quotient(img.height, 1)]
  ELSE [width |-> img.width, height |-> Quotient(img.height, 1)]

\* if (width > maxWidth) { height = (height * maxWidth) / width; width = maxWidth }
resizeImage(img, maxWidth) ==
  IF img.width > maxWidth
  THEN [width |-> maxWidth, height |-> Quotient(img.height * maxWidth, img.width)]
  ELSE [width |-> img.width, height |-> Quotient(img.height, 1)]

\* the sizes of the decoded source images
Images ==
  [width : {1} \cup {m * cap + d : m \in 1..2, d \in (0 - MaxOffset)..MaxOffset,
                     cap \in {MAX_IMAGE_WIDTH_STANDARD, MAX_IMAGE_WIDTH_LOW}},
   height : {1, 1125, 3000, 3001}]

\* what the browser does in a run: whether the image loads, whether the canvas
\* gives a 2d context, whether toBlob produces a blob
Environments == [decodes : BOOLEAN, context : BOOLEAN, encodes : BOOLEAN]

\* fileToImage creates the object URL (img.src = URL.createObjectURL(file)) and
\* rejects when the image fails to load; the function then throws without a 2d
\* context, rejects when toBlob gives null, and calls URL.revokeObjectURL(img.src)
\* after the blob is there
UrlsAfterRun(env, hasPixels) ==
  [created |-> 1,
   revoked |-> IF env.decodes /\ env.context /\ env.encodes /\ hasPixels THEN 1 ELSE 0,
   env |-> env]

\* compressImage(file, quality) in a browser that behaves as env says: the
\* canvas takes the computed size, the image is drawn on it and encoded; toBlob
\* gives null for a canvas without pixels and canvasToBlob rejects; the object
\* URL is revoked after the blob is there
compressImage(p, img, quality, env) ==
  LET size == resizeImage(img, getMaxWidth(quality))
      canvas == [width |-> size.width, height |-> ToUnsignedLong(size.height)]
      urls == UrlsAfterRun(env, canvas.width > 0 /\ canvas.height > 0)
  IN /\ pc[p] = "idle"
     /\ last' = [last EXCEPT ![p] =
                   [Outcome("compressImage", urls.revoked = urls.created, 0, 0)
                      EXCEPT !.image = [img |-> img, quality |-> quality,
                                        size |-> size, canvas |-> canvas],
                             !.urls = urls]]
     /\ UNCHANGED <<photos, prefectures, settings, images, pc, loc, nextId, database>>

\* the add-photo dialog compresses with the tier of the settings it loaded
compressStep(p) ==
  \E img \in Images, env \in Environments :
    compressImage(p, img, SettingsOrDefault(settings).compressionQuality, env)

(***************************************************************************)
(* The image codec: the source square of the thumbnail.                    *)
(***************************************************************************)
THUMBNAIL_SIZE == 300
\* crop values are fractions of the source, held in percent
Percent == 100
\* pixel coordinates are held in units of 1/SubPixel, which makes the products
\* with a percentage and their halves integers
SubPixel == 2 * Percent

Minimum(a, b) == IF a < b THEN a ELSE b
Maximum(a, b) == IF a > b THEN a ELSE b

\* cropSize = shortSide * size; cropX = originalWidth * x; cropY = originalHeight * y
LegacySquare(img, cropInfo) ==
  LET shortSide == Minimum(img.width, img.height)
  IN [cropX |-> img.width * cropInfo.x * 2,
      cropY |-> img.height * cropInfo.y * 2,
      cropSize |-> shortSide * cropInfo.size * 2]

\* the rectangle form without the two Math.max(0, Math.min(...)) lines
RectSquareUnclamped(img, cropInfo) ==
  LET cropWidth == img.width * cropInfo.width * 2
      cropHeight == img.height * cropInfo.height * 2
      cropSize == Minimum(cropWidth, cropHeight)
      centerX == img.width * cropInfo.x * 2 + cropWidth \div 2
      centerY == img.height * cropInfo.y * 2 + cropHeight \div 2
  IN [cropX |-> centerX - cropSize \div 2,
      cropY |-> centerY - cropSize \div 2,
      cropSize |-> cropSize]

\* the square of side min(cropWidth, cropHeight) about the centre of the
\* rectangle, then Math.max(0, Math.min(original - cropSize, crop))
RectSquare(img, cropInfo) ==
  LET cropWidth == img.width * cropInfo.width * 2
      cropHeight == img.height * cropInfo.height * 2
      cropSize == Minimum(cropWidth, cropHeight)
      centerX == img.width * cropInfo.x * 2 + cropWidth \div 2
      centerY == img.height * cropInfo.y * 2 + cropHeight \div 2
      cropX == centerX - cropSize \div 2
      cropY == centerY - cropSize \div 2
  IN [cropX |-> Maximum(0, Minimum(img.width * SubPixel - cropSize, cropX)),
      cropY |-> Maximum(0, Minimum(img.height * SubPixel - cropSize, cropY)),
      cropSize |-> cropSize]

\* the centred square over the shorter side
CenterSquare(img) ==
  LET cropSize == Minimum(img.width, img.height) * SubPixel
  IN [cropX |-> (img.width * SubPixel - cropSize) \div 2,
      cropY |-> (img.height * SubPixel - cropSize) \div 2,
      cropSize |-> cropSize]

\* generateThumbnail choosing the rectangle form before the deprecated one
SourceSquareRectFirst(img, cropInfo) ==
  CASE cropInfo.shape = "none" -> CenterSquare(img)
    [] cropInfo.shape \in {"rect", "both"} -> RectSquare(img, cropInfo)
    [] cropInfo.shape \in {"size", "both"} -> LegacySquare(img, cropInfo)
    [] OTHER -> CenterSquare(img)

\* if (cropInfo) { if ('size' in cropInfo && cropInfo.size !== undefined) ...
\* else if ('width' in cropInfo && 'height' in cropInfo) ... else ... } else ...
SourceSquare(img, cropInfo) ==
  CASE cropInfo.shape = "none" -> CenterSquare(img)
    [] cropInfo.shape \in {"size", "both"} -> LegacySquare(img, cropInfo)
    [] cropInfo.shape \in {"rect", "both"} -> RectSquare(img, cropInfo)
    [] OTHER -> CenterSquare(img)

\* generateThumbnail(file, cropInfo): the source square and the canvas it is
\* drawn on
generateThumbnail(img, cropInfo) ==
  LET square == SourceSquare(img, cropInfo)
  IN [cropX |-> square.cropX, cropY |-> square.cropY, cropSize |-> square.cropSize,
      canvas |-> [width |-> THUMBNAIL_SIZE, height |-> THUMBNAIL_SIZE]]

\* processImage with a thumbnail as wide as the tier allows
processImageThumbnailByTier(img, cropInfo, quality) ==
  [generateThumbnail(img, cropInfo) EXCEPT
     !.canvas = [width |-> getMaxWidth(quality) \div 5, height |-> THUMBNAIL_SIZE]]

\* the thumbnail of processImage(file, cropInfo, quality):
\* Promise.all([compressImage(file, quality), generateThumbnail(file, cropInfo)])
processImageThumbnail(img, cropInfo, quality) == generateThumbnail(img, cropInfo)

\* the decoded sources and the crop values, in range and out of range
ThumbnailSources ==
  {[width |-> 4000, height |-> 3000], [width |-> 3000, height |-> 4000],
   [width |-> 3000, height |-> 3000]}
CropValues ==
  LET origins == {0 - 10, 25, 80}
      extents == {0, 50, 110}
  IN {NoCrop}
       \cup {RectCrop(x, y, w, h) : x \in origins, y \in origins, w \in extents, h \in extents}
       \cup {SizeCrop(x, y, size) : x \in origins, y \in origins, size \in extents}
       \cup {BothCrop(x, x, size, 50, 50) : x \in origins, size \in extents}
       \cup {PointCrop(x, x) : x \in origins}

\* processImage(file, cropInfo, quality) with the tier of the stored settings
processImage(p, img, cropInfo) ==
  LET quality == SettingsOrDefault(settings).compressionQuality
  IN /\ pc[p] = "idle"
     /\ last' = [last EXCEPT ![p] =
                   [Outcome("processImage", TRUE, 0, 0)
                      EXCEPT !.thumbnail =
                        [NoThumbnail EXCEPT
                           !.img = img, !.cropInfo = cropInfo, !.quality = quality,
                           !.square = processImageThumbnail(img, cropInfo, quality),
                           !.runs = 1]]]
     /\ UNCHANGED <<photos, prefectures, settings, images, pc, loc, nextId, database>>

\* a second processImage on the same source with the same crop value, with any
\* tier
processImageAgain(p, quality) ==
  LET first == last[p].thumbnail
  IN /\ pc[p] = "idle"
     /\ last[p].op = "processImage"
     /\ first.runs = 1
     /\ last' = [last EXCEPT ![p].thumbnail =
                   [first EXCEPT
                      !.again = processImageThumbnail(first.img, first.cropInfo, quality),
                      !.qualityAgain = quality,
                      !.runs = 2]]
     /\ UNCHANGED <<photos, prefectures, settings, images, pc, loc, nextId, database>>

\* generateThumbnail(file, cropInfo) in a browser that behaves as env says
generateThumbnailIn(p, img, cropInfo, env) ==
  /\ pc[p] = "idle"
  /\ last' = [last EXCEPT ![p] =
                [Outcome("generateThumbnail", UrlsAfterRun(env, TRUE).revoked = 1, 0, 0)
                   EXCEPT !.thumbnail =
                            [NoThumbnail EXCEPT
                               !.img = img, !.cropInfo = cropInfo,
                               !.square = generateThumbnail(img, cropInfo),
                               !.runs = 1],
                          !.urls = UrlsAfterRun(env, TRUE)]]
  /\ UNCHANGED <<photos, prefectures, settings, images, pc, loc, nextId, database>>

(***************************************************************************)
(* The specifications.                                                     *)
(***************************************************************************)
\* the store as openDatabase creates it: four empty collections
Init ==
  /\ photos = Empty
  /\ prefectures = Empty
  /\ settings = Empty
  /\ images = Empty
  /\ pc = [p \in Procs |-> "idle"]
  /\ loc = [p \in Procs |-> NoLoc]
  /\ last = [p \in Procs |-> NoLast]
  /\ nextId = 0
  /\ database = NoDatabase

createPhotoStep(p, maxId) ==
  \/ /\ nextId + 3 <= maxId
     /\ \E r \in PREFECTURE_LIST, t \in Dates, c \in {RectCrop(25, 25, 50, 50)} : createPhotoStart(p, r, t, c)
  \/ createPhotoPutImage(p)
  \/ createPhotoPutThumbnail(p)
  \/ createPhotoPutPhoto(p)
  \/ createPhotoReturn(p)

deletePhotoStep(p) ==
  \/ \E id \in DOMAIN photos \cup {0} : deletePhotoStart(p, id)
  \/ deletePhotoDeleteImage(p)
  \/ deletePhotoDeleteThumbnail(p)
  \/ deletePhotoDeletePhoto(p)

countStep(p) == countList(p) \/ countGet(p) \/ countPut(p)

saveCropStep(p, maxId) ==
  \/ /\ nextId + 1 <= maxId
     /\ \E id \in DOMAIN photos, c \in {RectCrop(10, 20, 40, 40)}, e \in BOOLEAN : saveCropStart(p, id, c, e)
  \/ saveCropDeleteThumbnail(p)
  \/ saveCropPutThumbnail(p)
  \/ saveCropPutPhoto(p)
  \/ saveCropReload(p)

\* importAllData of every document, with and without a storage request that
\* fails
importStep(p) ==
  \/ \E in \in DocIds \X BOOLEAN : importAllData(p, in[1], in[2])
  \/ exportThenImport(p)

\* The repository on a store that starts empty, one caller at a time: the
\* operations run one after the other, and any of their writes may fail.
Next ==
  \E p \in SeqProcs :
    \/ createPhotoStep(p, MaxId)
    \/ deletePhotoStep(p)
    \/ countStep(p)
    \/ saveCropStep(p, MaxId)
    \/ storageFails(p)
    \/ initializePrefectures(p)
    \/ getSettings(p)

Spec == Init /\ [][Next]_vars

(***************************************************************************)
(* Creates and deletes, one after the other, on a seeded store.            *)
(***************************************************************************)
SeqInit ==
  /\ photos = Empty
  /\ prefectures = Seeded(Empty)
  /\ settings = Empty
  /\ images = Empty
  /\ pc = [p \in Procs |-> "idle"]
  /\ loc = [p \in Procs |-> NoLoc]
  /\ last = [p \in Procs |-> NoLast]
  /\ nextId = 0
  /\ database = NoDatabase

SeqNext ==
  \E p \in SeqProcs :
    \/ createPhotoStep(p, MaxSeqId)
    \/ deletePhotoStep(p)
    \/ countStep(p)

SeqSpec == SeqInit /\ [][SeqNext]_vars

(***************************************************************************)
(* Creates and edits of memo and favorite on a seeded store; any write may *)
(* fail.                                                                   *)
(***************************************************************************)
updatePhotoStep(p) ==
  \/ \E photo \in PhotoInputs(DOMAIN photos \cup {NoPhoto.id}) : updatePhotoStart(p, photo)
  \/ updatePhotoPut(p)

EditNext ==
  \E p \in SeqProcs :
    \/ createPhotoStep(p, MaxEditId)
    \/ updatePhotoStep(p)
    \/ countStep(p)
    \/ storageFails(p)

EditSpec == SeqInit /\ [][EditNext]_vars

(***************************************************************************)
(* deletePhoto and updatePhoto with ids that have a record and ids that    *)
(* have none, on a seeded store whose requests may fail.                   *)
(***************************************************************************)
LookupNext ==
  \E p \in SeqProcs :
    \/ createPhotoStep(p, MaxLookupId)
    \/ deletePhotoStep(p)
    \/ updatePhotoStep(p)
    \/ countStep(p)
    \/ storageFails(p)

LookupSpec == SeqInit /\ [][LookupNext]_vars

(***************************************************************************)
(* Two callers on a seeded store whose requests all succeed: their         *)
(* operations interleave at every await.                                   *)
(***************************************************************************)
RaceNext ==
  \E p \in Procs :
    \/ createPhotoStep(p, MaxRaceId)
    \/ deletePhotoStep(p)
    \/ countStep(p)
    \/ \E r \in PREFECTURE_LIST, totalManholes \in {10} : totalManholesGet(p, r, totalManholes)
    \/ totalManholesPut(p)

RaceSpec == SeqInit /\ [][RaceNext]_vars

(***************************************************************************)
(* The accessor of the second application's data, on the stores the        *)
(* repository makes without a failure.                                     *)
(***************************************************************************)
WordNext ==
  \E p \in SeqProcs :
    \/ createPhotoStep(p, MaxWordId)
    \/ countStep(p)
    \/ initializePrefectures(p)
    \/ getSettings(p)
    \/ \E w \in WordInputs : exportThenReadWords(p, w)
    \/ \E d \in 1..Len(WordDocList) : readWords(p, d)

WordSpec == Init /\ [][WordNext]_vars

(***************************************************************************)
(* The backup codec on the stores the repository makes without a failure.  *)
(***************************************************************************)
BackupNext ==
  \E p \in SeqProcs :
    \/ createPhotoStep(p, MaxBackupId)
    \/ countStep(p)
    \/ initializePrefectures(p)
    \/ getSettings(p)
    \/ importStep(p)

BackupSpec == Init /\ [][BackupNext]_vars

(***************************************************************************)
(* The settings record under the operations that write it.                 *)
(***************************************************************************)
SettingsNext ==
  \E p \in SeqProcs :
    \/ getSettings(p)
    \/ \E quality \in QualityInputs : changeQuality(p, quality)
    \/ \E premiumFeatures \in {"enabled", "undefined"} : setPremiumFeatures(p, premiumFeatures)
    \/ initializePrefectures(p)
    \/ importStep(p)

SettingsSpec == Init /\ [][SettingsNext]_vars

(***************************************************************************)
(* The image codec under the tiers the settings page stores, in a browser  *)
(* that may fail a run.                                                    *)
(***************************************************************************)
ImageNext ==
  \E p \in SeqProcs :
    \/ getSettings(p)
    \/ \E quality \in QualityInputs : changeQuality(p, quality)
    \/ compressStep(p)
    \/ \E img \in ThumbnailSources, cropInfo \in StoredCropInputs, env \in Environments :
         generateThumbnailIn(p, img, cropInfo, env)

ImageSpec == Init /\ [][ImageNext]_vars

(***************************************************************************)
(* Records with crop values of every shape, and their reads.               *)
(***************************************************************************)
CropNext ==
  \E p \in SeqProcs :
    \/ /\ nextId + 3 <= MaxCropId
       /\ \E r \in PREFECTURE_LIST, t \in Dates, c \in StoredCropInputs :
            createPhotoStart(p, r, t, c)
    \/ createPhotoPutImage(p)
    \/ createPhotoPutThumbnail(p)
    \/ createPhotoPutPhoto(p)
    \/ createPhotoReturn(p)
    \/ countStep(p)

CropSpec == Init /\ [][CropNext]_vars

(***************************************************************************)
(* Two callers of getDatabase.                                             *)
(***************************************************************************)
DatabaseNext ==
  \E p \in Procs :
    \/ getDatabaseStart(p)
    \/ \E resolves \in BOOLEAN : getDatabaseOpened(p, resolves)

DatabaseSpec == Init /\ [][DatabaseNext]_vars

(***************************************************************************)
(* The thumbnail geometry under the tiers the settings page stores.        *)
(***************************************************************************)
ThumbnailNext ==
  \E p \in SeqProcs :
    \/ getSettings(p)
    \/ \E quality \in QualityInputs : changeQuality(p, quality)
    \/ \E img \in ThumbnailSources, cropInfo \in CropValues : processImage(p, img, cropInfo)
    \/ \E quality \in QualityInputs : processImageAgain(p, quality)

ThumbnailSpec == Init /\ [][ThumbnailNext]_vars

(***************************************************************************)
(* Properties.                                                             *)
(***************************************************************************)
\* the photo records of a region
PhotosOf(r) == {i \in DOMAIN photos : photos[i].prefectureId = r}

\* C1: on a seeded store, after every completed createPhoto or deletePhoto run
\* one after the other, the photoCount of every prefecture record is not negative
\* and is the number of photo records whose prefectureId is its id.
C1_CountMatches ==
  Quiescent =>
    \A r \in DOMAIN prefectures :
      /\ prefectures[r].photoCount >= 0
      /\ prefectures[r].photoCount = Cardinality(PhotosOf(r))

\* three photos created in region "01", one of them deleted: the count is 2
C1_Witness ==
  /\ Quiescent
  /\ last[1].op = "deletePhoto" /\ last[1].ok
  /\ Cardinality(PhotosOf("01")) = 2
  /\ prefectures["01"].photoCount = 2
  /\ nextId = 9

\* C2: in every state, the states between two awaited writes included, both
\* blob ids of every photo record are keys of the images collection.
C2_BlobsResolve ==
  \A i \in DOMAIN photos :
    /\ photos[i].imageBlobId \in DOMAIN images
    /\ photos[i].thumbnailBlobId \in DOMAIN images

(***************************************************************************)
(* importAllData.  A step of importAllData by caller 1 is a step taken     *)
(* with the caller idle after which its last outcome is an import's; the   *)
(* document of the step is DocList[last'[1].doc].                          *)
(***************************************************************************)
\* the documents that parse and carry no version marker in either field
NoMarkerDocs ==
  {d \in DocIds : DocList[d].parses /\ DocList[d].version = "" /\ DocList[d].formatVersion = ""}

\* C3: when importAllData fails, for whatever reason, the four collections hold
\* after the call exactly what they held before it.
C3_FailedImportKeepsStore ==
  [][(pc[1] = "idle" /\ last'[1].op = "importAllData" /\ ~last'[1].ok)
       => UNCHANGED store]_vars

\* C4: importAllData on a document without a version marker throws, no
\* collection is cleared or written, and the number of photo records is the
\* number before the call.
C4_NoMarkerRejected ==
  [][(pc[1] = "idle" /\ last'[1].op = "importAllData" /\ last'[1].doc \in NoMarkerDocs)
       => /\ ~last'[1].ok
          /\ UNCHANGED store
          /\ Cardinality(DOMAIN photos') = Cardinality(DOMAIN photos)]_vars

\* a store with a photo and its blobs, on which a document without a marker
\* has just been refused
C4_Witness ==
  /\ last[1].op = "importAllData" /\ ~last[1].ok
  /\ last[1].doc \in NoMarkerDocs
  /\ DOMAIN photos # {} /\ DOMAIN images # {}

(***************************************************************************)
(* The round trip importAllData(await exportAllData()).                    *)
(***************************************************************************)
\* caller 1 takes the round trip in this step
RoundTripStep == pc[1] = "idle" /\ last'[1].op = "exportThenImport"

\* C5 as stated: the round trip succeeds and leaves the same photo records, the
\* same prefecture records, the same settings record, and under every key of
\* images a blob of the same bytes and the same content type.
C5_RoundTripIdentity ==
  [][RoundTripStep =>
       /\ last'[1].ok
       /\ photos' = photos
       /\ prefectures' = prefectures
       /\ settings' = settings
       /\ images' = images]_vars

\* C5 as amended: the round trip succeeds and leaves the same photo and
\* prefecture records; the settings record is the stored one, or the default
\* record when the store had none; every key of images keeps its bytes, and its
\* content type except that an empty content type becomes 'image/jpeg'.
C5_RoundTrip ==
  [][RoundTripStep =>
       /\ last'[1].ok
       /\ photos' = photos
       /\ prefectures' = prefectures
       /\ settings' = IF SETTINGS_ID \in DOMAIN settings
                      THEN settings
                      ELSE Put(Empty, SETTINGS_ID, DefaultSettings)
       /\ DOMAIN images' = DOMAIN images
       /\ \A k \in DOMAIN images :
            /\ images'[k].bytes = images[k].bytes
            /\ images'[k].type = IF images[k].type = "" THEN "image/jpeg" ELSE images[k].type]_vars

\* after a round trip of a store with a photo, whose thumbnail had no content type
C5_Witness ==
  /\ last[1].op = "exportThenImport" /\ last[1].ok
  /\ DOMAIN photos # {}
  /\ \E k \in DOMAIN images : images[k] = [UntypedBlob EXCEPT !.type = "image/jpeg"]
  /\ SETTINGS_ID \in DOMAIN settings

(***************************************************************************)
(* The two generations of the document.                                    *)
(***************************************************************************)
\* caller 1 runs importAllData in this step, on document ImportedDoc
ImportStep == pc[1] = "idle" /\ last'[1].op = "importAllData"
ImportedDoc == DocList[last'[1].doc]
\* and none of its storage requests fails
StorageWorks == last'[1].error # "RequestError"

\* the v1 documents with a version, a photos and a prefectures array, and in
\* images, when they have one, only base64 text
V1Docs ==
  {d \in DocIds :
     /\ DocList[d].parses /\ ~DocList[d].app.present
     /\ DocList[d].version # ""
     /\ DocList[d].top.hasPhotos /\ DocList[d].top.hasPrefectures
     /\ \A i \in 1..Len(DocList[d].top.images) : ~AtobFails(DocList[d].top.images[i].data)}

\* the v2 document that carries the four values of v1 document d
V2TwinOf(d) == DocList[d - 1]

\* what importAllData would have made of the v2 twin in the same store
TwinResult == ImportResult(photos, prefectures, settings, images, V2TwinOf(last'[1].doc), FALSE)

\* C6 as stated: when no storage request fails, a v1 document and its v2 twin
\* both import, and leave the same photos, prefectures and images; a v1
\* document without settings stores the default settings, one without an
\* images array leaves images empty.
C6_V1SameAsV2 ==
  [][(ImportStep /\ StorageWorks /\ last'[1].doc \in V1Docs) =>
       /\ last'[1].ok /\ TwinResult.ok
       /\ photos' = TwinResult.photos
       /\ prefectures' = TwinResult.prefectures
       /\ images' = TwinResult.images
       /\ ~ImportedDoc.top.hasSettings => settings' = Put(Empty, SETTINGS_ID, DefaultSettings)
       /\ ~ImportedDoc.top.hasImages => images' = Empty]_vars

\* C6 as amended: when no storage request fails, a v1 document imports; with an
\* images array its v2 twin imports too and both leave the same photos,
\* prefectures and images; without an images array the v1 document leaves
\* images empty and its v2 twin fails; a v1 document without settings stores
\* the default settings.
C6_V1Upgraded ==
  [][(ImportStep /\ StorageWorks /\ last'[1].doc \in V1Docs) =>
       /\ last'[1].ok
       /\ ~ImportedDoc.top.hasSettings => settings' = Put(Empty, SETTINGS_ID, DefaultSettings)
       /\ IF ImportedDoc.top.hasImages
          THEN /\ TwinResult.ok
               /\ photos' = TwinResult.photos
               /\ prefectures' = TwinResult.prefectures
               /\ images' = TwinResult.images
          ELSE /\ images' = Empty
               /\ ~TwinResult.ok]_vars

\* a v1 document without settings has been imported: its photos and images are
\* stored, with the default settings
C6_Witness ==
  /\ last[1].op = "importAllData" /\ last[1].ok
  /\ last[1].doc \in V1Docs
  /\ ~DocList[last[1].doc].top.hasSettings
  /\ settings = Put(Empty, SETTINGS_ID, DefaultSettings)
  /\ DOMAIN photos # {} /\ DOMAIN images # {}

(***************************************************************************)
(* The version marker.                                                     *)
(***************************************************************************)
VersionValues == {"1.0.0", "2.0.0"}

\* the documents that carry the complete backup, as v2 or as v1
CompleteBackupDocs ==
  {d \in DocIds :
     /\ DocList[d].parses
     /\ \/ DocList[d].app = DocPayloads[1]
        \/ DocList[d].top = [DocPayloads[1] EXCEPT !.present = FALSE]}

\* C7 as stated: a well-formed document is accepted with its marker, "1.0.0" or
\* "2.0.0", in the field version or in the field formatVersion.
C7_MarkerInEitherField ==
  [][(/\ ImportStep /\ StorageWorks
      /\ last'[1].doc \in CompleteBackupDocs
      /\ (ImportedDoc.version \in VersionValues \/ ImportedDoc.formatVersion \in VersionValues))
       => last'[1].ok]_vars

\* C7 as amended: a well-formed document is accepted with its marker, "1.0.0" or
\* "2.0.0", in the field version; with no version field, a marker in
\* formatVersion or none, it is refused and the store is left as it was.
C7_MarkerInVersion ==
  [][(ImportStep /\ StorageWorks /\ last'[1].doc \in CompleteBackupDocs) =>
       /\ ImportedDoc.version \in VersionValues => last'[1].ok
       /\ ImportedDoc.version = "" => (~last'[1].ok /\ UNCHANGED store)]_vars

\* the complete backup has been imported from a v2 document marked "1.0.0"
C7_Witness ==
  /\ last[1].op = "importAllData" /\ last[1].ok
  /\ last[1].doc \in CompleteBackupDocs
  /\ DocList[last[1].doc].app.present
  /\ DocList[last[1].doc].version = "1.0.0"
  /\ DOMAIN photos = {DocPhotoA.id, DocPhotoB.id}

(***************************************************************************)
(* The store after a successful import.                                    *)
(***************************************************************************)
\* the four values document d carries, under apps['manhole-app'] or at the top
CarriedBy(d) == IF DocList[d].app.present THEN DocList[d].app ELSE DocList[d].top

IdsOf(records) == {records[i].id : i \in 1..Len(records)}

\* C10: after importAllData has returned, photos, prefectures and images hold
\* the document's photos, prefectures and images[] entries, each under its own
\* id, and nothing else; settings holds the document's settings record when the
\* document has one.
C10_StoreIsDocument ==
  (last[1].op = "importAllData" /\ last[1].ok) =>
    LET data == CarriedBy(last[1].doc)
    IN  /\ DOMAIN photos = IdsOf(data.photos)
        /\ \A i \in 1..Len(data.photos) : photos[data.photos[i].id] = data.photos[i]
        /\ DOMAIN prefectures = IdsOf(data.prefectures)
        /\ \A i \in 1..Len(data.prefectures) :
             prefectures[data.prefectures[i].id] = data.prefectures[i]
        /\ DOMAIN images = IdsOf(data.images)
        /\ \A i \in 1..Len(data.images) :
             /\ images[data.images[i].id].type = data.images[i].type
             /\ Base64Encode(images[data.images[i].id].bytes) = data.images[i].data
        /\ data.hasSettings => settings = Put(Empty, data.settings.id, data.settings)

\* the complete backup has been imported into a store that held a photo the
\* repository had created: that photo is gone
C10_Witness ==
  /\ last[1].op = "importAllData" /\ last[1].ok
  /\ last[1].doc = 1
  /\ nextId = 3
  /\ DOMAIN photos = {DocPhotoA.id, DocPhotoB.id}
  /\ Cardinality(DOMAIN images) = 4

(***************************************************************************)
(* deletePhoto and the blobs.                                              *)
(***************************************************************************)
\* the keys of images a photo record refers to
BlobIdsOf(photoDB) == {photoDB.imageBlobId, photoDB.thumbnailBlobId}

\* caller 1 is inside deletePhoto(id), on the record it read at its start
Deleting == loc[1].op = "deletePhoto"
\* and returns from it in this step
DeleteReturns == Deleting /\ pc'[1] = "idle" /\ last'[1].ok

\* C8: when deletePhoto(id) returns, photos has no record id and images has
\* neither blob of the record; no step of the operation changes another photo
\* record or removes or changes a blob of another photo record.
C8_DeleteRemovesOnlyItsOwn ==
  [][/\ DeleteReturns =>
          /\ loc[1].photoDB.id \notin DOMAIN photos'
          /\ BlobIdsOf(loc[1].photoDB) \cap DOMAIN images' = {}
     /\ Deleting =>
          \A i \in DOMAIN photos \ {loc[1].photoDB.id} :
            /\ i \in DOMAIN photos' /\ photos'[i] = photos[i]
            /\ \A b \in BlobIdsOf(photos[i]) \cap DOMAIN images :
                 b \in DOMAIN images' /\ images'[b] = images[b]]_vars

\* deletePhoto has returned in a store where another photo of the same region is
\* left with both its blobs, no other blob is left, and the region counts 1
C8_Witness ==
  /\ Quiescent
  /\ last[1].op = "deletePhoto" /\ last[1].ok
  /\ last[1].id \notin DOMAIN photos
  /\ \E i \in DOMAIN photos :
       /\ DOMAIN photos = {i}
       /\ DOMAIN images = BlobIdsOf(photos[i])
       /\ Cardinality(DOMAIN images) = 2
       /\ photos[i].prefectureId \in DOMAIN prefectures
       /\ prefectures[photos[i].prefectureId].photoCount = 1

\* C9: whenever no operation is in flight, every key of images is the
\* imageBlobId or the thumbnailBlobId of exactly one photo record.
C9_NoOrphanBlob ==
  Quiescent =>
    \A k \in DOMAIN images :
      Cardinality({i \in DOMAIN photos : k \in BlobIdsOf(photos[i])}) = 1

(***************************************************************************)
(* The date of the latest photo of a region.                               *)
(***************************************************************************)
\* the greatest takenAt among the photo records of region r
LatestTakenAt(r) ==
  CHOOSE t \in {photos[i].takenAt : i \in PhotosOf(r)} :
    \A i \in PhotosOf(r) : photos[i].takenAt <= t

\* C11: after every completed createPhoto or deletePhoto the lastPhotoDate of
\* the region is the greatest takenAt among the photo records of the region,
\* and is absent when the region has no photo record.
C11_LastDateMatches ==
  Quiescent =>
    \A r \in DOMAIN prefectures :
      prefectures[r].lastPhotoDate =
        IF PhotosOf(r) = {} THEN NoDate ELSE LatestTakenAt(r)

(***************************************************************************)
(* The region of a photo.                                                  *)
(***************************************************************************)
\* C12: in every state, the prefectureId of every photo record is the id of a
\* record of the prefectures collection; a createPhoto for a region without a
\* record leaves no photo record that refers to it.
C12_RegionExists ==
  \A i \in DOMAIN photos : photos[i].prefectureId \in DOMAIN prefectures

(***************************************************************************)
(* initializePrefectures.                                                  *)
(***************************************************************************)
\* caller 1 runs initializePrefectures in this step
SeedStep == pc[1] = "idle" /\ last'[1].op = "initializePrefectures"

Intact == {i \in DOMAIN photos : BlobIdsOf(photos[i]) \subseteq DOMAIN images}

\* list holds the records of photos under the ids S, each once, and no other
ListsExactly(list, S) ==
  /\ Len(list) = Cardinality(S)
  /\ {list[n].id : n \in 1..Len(list)} = S
  /\ \A n \in 1..Len(list) : list[n] = photos[list[n].id]

\* C14: getAllPhotos returns exactly the photo records whose two blobs exist,
\* and getPhotosByPrefectureId exactly those of the region, whatever records
\* with a missing blob the store holds besides.
C14_ListingSkipsBroken ==
  /\ ListsExactly(getAllPhotos(photos, images), Intact)
  /\ \A r \in PREFECTURE_LIST :
       ListsExactly(getPhotosByPrefectureId(photos, images, r), Intact \cap PhotosOf(r))

\* a region holds a record that has lost a blob and, taken later or on the same
\* day, so behind it in the sorted records, one that has both: the listings
\* return the second alone
C14_Witness ==
  /\ Quiescent
  /\ \E i, j \in DOMAIN photos :
       /\ i \notin Intact /\ j \in Intact
       /\ photos[i].prefectureId = photos[j].prefectureId
       /\ photos[i].takenAt >= photos[j].takenAt
       /\ getAllPhotos(photos, images) = <<photos[j]>>
       /\ getPhotosByPrefectureId(photos, images, photos[j].prefectureId) = <<photos[j]>>

\* list is in descending order of takenAt
Descending(list) == \A n \in 1..(Len(list) - 1) : list[n].takenAt >= list[n + 1].takenAt

\* C17: the lists getAllPhotos and getPhotosByPrefectureId return are in
\* descending order of takenAt.
C17_ListingSorted ==
  /\ Descending(getAllPhotos(photos, images))
  /\ \A r \in PREFECTURE_LIST : Descending(getPhotosByPrefectureId(photos, images, r))

\* three photos of one region, the second created being the latest taken: it is
\* the first of the listing
C17_Witness ==
  /\ Quiescent
  /\ LET list == getPhotosByPrefectureId(photos, images, "01")
     IN  /\ Len(list) = 3
         /\ list[1].takenAt > list[2].takenAt
         /\ list[1].id > list[2].id /\ list[1].id < list[3].id

(***************************************************************************)
(* getPhotoById.                                                           *)
(***************************************************************************)
\* an id no photo record has
AbsentId == NoPhoto.id

\* C15: getPhotoById on a record that has lost a blob throws to its caller, which
\* can so tell it from the outcome for an id without a record; it never returns
\* a photo for such a record.
C15_MissingBlobSurfaced ==
  \A i \in DOMAIN photos \ Intact :
    LET outcome == getPhotoById(photos, images, i)
    IN  /\ outcome.threw
        /\ outcome # getPhotoById(photos, images, AbsentId)
        /\ outcome.isNull

(***************************************************************************)
(* updatePhoto.                                                            *)
(***************************************************************************)
\* caller 1 takes a step of updatePhoto: it reads the record, or it puts it
UpdateStep ==
  \/ pc[1] = "idle" /\ pc'[1] = "up_put"
  \/ pc[1] = "up_put"

\* C16: updatePhoto changes nothing but the memo and favorite of the record with
\* the id of the passed photo: the other fields of that record, the other photo
\* records, the images and the prefecture records stay as they are, whatever the
\* passed photo carries.
C16_UpdateTouchesMemoAndFavorite ==
  [][UpdateStep =>
       /\ UNCHANGED <<prefectures, settings, images>>
       /\ DOMAIN photos' = DOMAIN photos
       /\ \A i \in DOMAIN photos :
            photos[i] = [photos'[i] EXCEPT !.memo = photos[i].memo,
                                           !.favorite = photos[i].favorite]
       /\ \A i \in DOMAIN photos \ {loc[1].photoDB.id, loc'[1].photoDB.id} :
            photos'[i] = photos[i]]_vars

\* updatePhoto has set the memo and the favorite mark of one of two photos of a
\* region, whose count still is 2
C16_Witness ==
  /\ last[1].op = "updatePhoto" /\ last[1].ok
  /\ last[1].id \in DOMAIN photos
  /\ photos[last[1].id].memo = "memo" /\ photos[last[1].id].favorite
  /\ \E j \in DOMAIN photos \ {last[1].id} :
       /\ photos[j].prefectureId = photos[last[1].id].prefectureId
       /\ photos[j].memo = "" /\ ~photos[j].favorite
  /\ prefectures[photos[last[1].id].prefectureId].photoCount = 2

(***************************************************************************)
(* The second namespace of the document.                                   *)
(***************************************************************************)
\* caller 1 exports with the data last'[1].words and reads them back in this step
WordRoundTripStep == pc[1] = "idle" /\ last'[1].op = "exportWithWordSystem"
\* caller 1 calls getWordSystemData on a document of WordDocList in this step
WordReadStep == pc[1] = "idle" /\ last'[1].op = "getWordSystemData"

\* C18: getWordSystemData returns the data exportWithWordSystem was given, and
\* null when it was given none; the document's primary namespace is that of
\* exportAllData; getWordSystemData returns null for a document without the
\* second namespace and for a text that does not parse; none of this changes
\* the store.
C18_WordSystemRoundTrip ==
  [][/\ WordRoundTripStep =>
          /\ last'[1].read = IF last'[1].words.given
                             THEN [isNull |-> FALSE, data |-> last'[1].words]
                             ELSE NullWords
          /\ exportWithWordSystem(photos, prefectures, settings, images, last'[1].words).app
               = exportAllData(photos, prefectures, settings, images).app
          /\ UNCHANGED store
     /\ WordReadStep =>
          /\ last'[1].read.isNull
               = (~WordDocList[last'[1].doc].parses \/ ~WordDocList[last'[1].doc].wordSystem.given)
          /\ ~last'[1].read.isNull => last'[1].read.data = WordDocList[last'[1].doc].wordSystem
          /\ UNCHANGED store]_vars

\* a history without words has been exported from a store with a photo and read back
C18_Witness ==
  /\ last[1].op = "exportWithWordSystem"
  /\ last[1].words.given /\ ~last[1].words.hasWords /\ last[1].words.hasHistory
  /\ ~last[1].read.isNull /\ last[1].read.data = last[1].words
  /\ DOMAIN photos # {} /\ DOMAIN images # {}

\* C19: the settings collection holds at most the record 'app_settings', and
\* once that record exists it exists in every later state, whatever sequence of
\* getSettings, updateSettings, license activation or deactivation and
\* importAllData follows.
C19_SettingsRecordStays ==
  [][/\ DOMAIN settings' \subseteq {SETTINGS_ID}
     /\ SETTINGS_ID \in DOMAIN settings => SETTINGS_ID \in DOMAIN settings']_vars

\* a run of compressImage whose source image loaded, so that its size was computed
Compressed == last[1].op = "compressImage" /\ last[1].urls.env.decodes

\* C20: for every source size (w, h) and tier the primary image size is (w, h)
\* when w is at most the cap of the tier (2000 for high and standard, 1500 for
\* low) and (cap, h*cap/w) otherwise; the width exceeds neither the cap nor w,
\* the ratio of width to height is that of the source, and 4000x3000 at tier
\* low gives 1500x1125.
C20_PrimaryImageSize ==
  Compressed =>
    LET w == last[1].image.img.width
        h == last[1].image.img.height
        cap == IF last[1].image.quality = "low" THEN 1500 ELSE 2000
        size == last[1].image.size
    IN /\ w <= cap => size = [width |-> w, height |-> Quotient(h, 1)]
       /\ w > cap => size = [width |-> cap, height |-> Quotient(h * cap, w)]
       /\ size.width <= cap
       /\ size.width <= w
       /\ Quotient(size.width * size.height.den, size.height.num) = Quotient(w, h)
       /\ (w = 4000 /\ h = 3000 /\ cap = 1500) =>
             /\ size = [width |-> 1500, height |-> Quotient(1125, 1)]
             /\ last[1].image.canvas = [width |-> 1500, height |-> 1125]

C20_Witness ==
  /\ Compressed
  /\ last[1].image.img = [width |-> 4000, height |-> 3000]
  /\ last[1].image.quality = "low"
  /\ last[1].image.canvas = [width |-> 1500, height |-> 1125]

TwoRuns == last[1].op = "processImage" /\ last[1].thumbnail.runs = 2

Thumbnailed == last[1].op = "processImage"
InUnit(v) == 0 <= v /\ v <= Percent
\* the square lies inside the source
SquareInside(square, img) ==
  /\ 0 <= square.cropX
  /\ 0 <= square.cropY
  /\ square.cropX + square.cropSize <= img.width * SubPixel
  /\ square.cropY + square.cropSize <= img.height * SubPixel
\* x or y outside [0,1], an extent above 1, or x + width or y + height above 1
OutOfRange(cropInfo) ==
  \/ ~InUnit(cropInfo.x)
  \/ ~InUnit(cropInfo.y)
  \/ cropInfo.shape = "size" /\ cropInfo.size > Percent
  \/ /\ cropInfo.shape = "rect"
     /\ \/ cropInfo.width > Percent
        \/ cropInfo.height > Percent
        \/ cropInfo.x + cropInfo.width > Percent
        \/ cropInfo.y + cropInfo.height > Percent

\* C22: for a crop of either shape with out-of-range values generateThumbnail
\* does not fail and clamps: the source square it draws from lies inside the
\* source (0 <= cropX, 0 <= cropY, cropX + cropSize <= sourceWidth,
\* cropY + cropSize <= sourceHeight).
C22_OutOfRangeCropClamped ==
  (/\ Thumbnailed
   /\ last[1].thumbnail.cropInfo.shape \in {"size", "rect"}
   /\ OutOfRange(last[1].thumbnail.cropInfo))
    => /\ last[1].ok
       /\ SquareInside(last[1].thumbnail.square, last[1].thumbnail.img)

\* v brought into [lo, hi]; lo when the interval is empty
Nearest(v, lo, hi) == IF v > hi THEN Maximum(lo, hi) ELSE Maximum(lo, v)
\* the rectangle rule: side min(W*width, H*height), centred on the centre of
\* the rectangle, shifted into the source where the centred square leaves it
RectangleRule(square, img, cropInfo) ==
  LET W == img.width * SubPixel
      H == img.height * SubPixel
      side == Minimum(img.width * cropInfo.width * 2, img.height * cropInfo.height * 2)
      centredX == img.width * (2 * cropInfo.x + cropInfo.width) - side \div 2
      centredY == img.height * (2 * cropInfo.y + cropInfo.height) - side \div 2
  IN /\ square.cropSize = side
     /\ square.cropX = Nearest(centredX, 0, W - side)
     /\ square.cropY = Nearest(centredY, 0, H - side)
InRangeRect(cropInfo) ==
  /\ cropInfo.shape = "rect"
  /\ InUnit(cropInfo.x) /\ InUnit(cropInfo.y)
  /\ InUnit(cropInfo.width) /\ InUnit(cropInfo.height)

\* C25: for a rectangle crop with all four values in [0,1] on a W x H source,
\* the source square has side min(W*width, H*height), is centred on the centre
\* of the rectangle unless that would leave the source, and lies inside the
\* source after clamping, which shifts the square and keeps its side.
C25_RectangleSquare ==
  (Thumbnailed /\ InRangeRect(last[1].thumbnail.cropInfo)) =>
    /\ RectangleRule(last[1].thumbnail.square, last[1].thumbnail.img,
                     last[1].thumbnail.cropInfo)
    /\ SquareInside(last[1].thumbnail.square, last[1].thumbnail.img)

\* a rectangle at the right edge: the centred square would leave the source
C25_Witness ==
  /\ Thumbnailed
  /\ last[1].thumbnail.img = [width |-> 4000, height |-> 3000]
  /\ last[1].thumbnail.cropInfo = RectCrop(80, 25, 50, 50)
  /\ last[1].thumbnail.square.cropSize = 1500 * SubPixel
  /\ last[1].thumbnail.square.cropX = 2500 * SubPixel
  /\ last[1].thumbnail.square.cropY = 750 * SubPixel

\* C26: a crop value with a defined size uses the deprecated rule (side
\* size * min(W, H), anchored at (x*W, y*H)) even when width and height are
\* present too; otherwise a crop with width and height uses the rectangle rule;
\* with no crop, or a crop of neither shape, the square is the centred one of
\* side min(W, H) at ((W - side)/2, (H - side)/2).
C26_SquarePriority ==
  Thumbnailed =>
    LET img == last[1].thumbnail.img
        cropInfo == last[1].thumbnail.cropInfo
        square == last[1].thumbnail.square
        side == Minimum(img.width, img.height)
    IN /\ cropInfo.shape \in {"size", "both"} =>
            /\ square.cropSize = cropInfo.size * side * 2
            /\ square.cropX = cropInfo.x * img.width * 2
            /\ square.cropY = cropInfo.y * img.height * 2
       /\ cropInfo.shape = "rect" => RectangleRule(square, img, cropInfo)
       /\ cropInfo.shape \in {"none", "point"} =>
            /\ square.cropSize = side * SubPixel
            /\ square.cropX * 2 = (img.width - side) * SubPixel
            /\ square.cropY * 2 = (img.height - side) * SubPixel

\* a value with size, width and height whose two rules give different squares
C26_Witness ==
  /\ Thumbnailed
  /\ last[1].thumbnail.cropInfo = BothCrop(25, 25, 110, 50, 50)
  /\ last[1].thumbnail.img = [width |-> 4000, height |-> 3000]
  /\ last[1].thumbnail.square.cropSize = 3300 * SubPixel
  /\ ~RectangleRule(last[1].thumbnail.square, last[1].thumbnail.img,
                    last[1].thumbnail.cropInfo)

\* C24: dbToPhoto converts the stored crop at the storage boundary: a stored
\* {x, y, size} reads back as {x, y, width: size, height: size}, a stored
\* {x, y, width, height} reads back unchanged, an absent crop reads back as
\* absent, and the crop read back never carries a size field; in getPhotoById
\* and in the listing alike.
C24_CropNormalized ==
  \A i \in Intact :
    LET stored == photos[i].cropInfo
        read == getPhotoById(photos, images, i).photo.cropInfo
        listed == getAllPhotos(photos, images)
    IN /\ stored.shape = "size" => read = RectCrop(stored.x, stored.y, stored.size, stored.size)
       /\ stored.shape = "rect" => read = stored
       /\ stored.shape = "none" => read = NoCrop
       /\ read.shape \in {"none", "rect"}
       /\ \E n \in 1..Len(listed) : listed[n].id = i /\ listed[n].cropInfo = read

\* the example of the deprecated form: {0.1, 0.2, size 0.4}
C24_Witness ==
  /\ Quiescent
  /\ \E i \in Intact :
       /\ photos[i].cropInfo = SizeCrop(10, 20, 40)
       /\ getPhotoById(photos, images, i).photo.cropInfo = RectCrop(10, 20, 40, 40)

\* C23: every object URL the codec creates to decode a source image has been
\* revoked when compressImage or generateThumbnail has settled, on every path:
\* successful encode, image load failure, missing canvas context, and toBlob
\* yielding null.
C23_ObjectUrlsRevoked ==
  \A p \in SeqProcs :
    last[p].op \in {"compressImage", "generateThumbnail"} =>
      last[p].urls.revoked = last[p].urls.created

\* C27: the database handle is initialized once: for any interleaving of
\* getDatabase calls, several started before the first open has resolved
\* included, at most one open produces a handle and every caller receives the
\* same handle.
C27_InitializedOnce ==
  /\ database.resolved <= 1
  /\ \A p, q \in Procs :
       (/\ last[p].op = "getDatabase" /\ last[p].ok
        /\ last[q].op = "getDatabase" /\ last[q].ok)
         => last[p].handle = last[q].handle

\* caller p writes the region record at the end of its count update
CountWrite(p) == pc[p] = "count_put" /\ pc'[p] # "count_put" /\ loc[p].found
BothReturned == Quiescent /\ \A p \in Procs : last[p].op # "none" /\ last[p].ok

\* C28: the counter read-modify-write is not protected against interleaving: the
\* count update writes back the count it listed and the record it read at its
\* earlier awaits, whatever the other caller has written since, so that with
\* two operations on one region interleaved a state is reached in which both
\* have completed and itemCount differs from the live count, or a target-count
\* edit is overwritten by the stale record.
C28_CountWritesStaleRecord ==
  [][\A p \in Procs :
       CountWrite(p) =>
         LET r == loc[p].prefecture.id
         IN /\ prefectures'[r].photoCount = loc[p].count
            /\ prefectures'[r].totalManholes = loc[p].prefecture.totalManholes]_vars

\* two createPhoto calls on one region have both returned and the region counts
\* one photo of the two
C28_Witness ==
  /\ BothReturned
  /\ \A p \in Procs : last[p].op = "createPhoto"
  /\ \E r \in PREFECTURE_LIST :
       /\ Cardinality(PhotosOf(r)) = 2
       /\ prefectures[r].photoCount = 1

\* a createPhoto and a deletePhoto on one region have both returned and the
\* count is not the live count
C28_CreateDeleteMiscount ==
  /\ BothReturned
  /\ last[1].op = "createPhoto" /\ last[2].op = "deletePhoto"
  /\ \E r \in PREFECTURE_LIST : prefectures[r].photoCount # Cardinality(PhotosOf(r))

\* updatePrefectureTotalManholes has returned and no region holds a target count
C28_TargetOverwritten ==
  /\ BothReturned
  /\ last[2].op = "updatePrefectureTotalManholes"
  /\ \A r \in PREFECTURE_LIST : prefectures[r].totalManholes = NoNumber

\* C29: initializePrefectures never changes the photoCount, lastPhotoDate or
\* totalManholes of a region record that already exists: run on a store that
\* holds fewer region records than the catalog while photos exist, every
\* record that was there keeps its counters, and a photoCount that was the
\* live count still is.
C29_SeedKeepsCounters ==
  [][SeedStep =>
       \A r \in DOMAIN prefectures :
         /\ r \in DOMAIN prefectures'
         /\ prefectures'[r].photoCount = prefectures[r].photoCount
         /\ prefectures'[r].lastPhotoDate = prefectures[r].lastPhotoDate
         /\ prefectures'[r].totalManholes = prefectures[r].totalManholes
         /\ prefectures[r].photoCount = Cardinality(PhotosOf(r))
              => prefectures'[r].photoCount = Cardinality({i \in DOMAIN photos' :
                                                            photos'[i].prefectureId = r})]_vars

\* caller 1 calls deletePhoto or updatePhoto with an id that has no record
NotFoundStep ==
  /\ pc[1] = "idle"
  /\ last'[1].op \in {"deletePhoto", "updatePhoto"}
  /\ last'[1].id \notin DOMAIN photos

\* C30: deletePhoto and updatePhoto called with an id that has no photo record
\* fail before any write: the four collections, every region's photoCount and
\* lastPhotoDate included, are after the call what they were before it.
C30_NotFoundWritesNothing ==
  [][/\ NotFoundStep => (~last'[1].ok /\ UNCHANGED store)
     /\ \A id \in {AbsentId} \cup ((1..MaxLookupId) \ DOMAIN photos) :
          (pc[1] = "idle" /\ pc'[1] \in {"dp_deleteImage", "up_put"})
            => loc'[1].photoDB.id # id]_vars

\* deletePhoto of an id without a record has thrown, on a store that holds a
\* counted photo
C30_Witness ==
  /\ last[1].op = "deletePhoto" /\ ~last[1].ok
  /\ last[1].id \notin DOMAIN photos
  /\ \E r \in PREFECTURE_LIST : prefectures[r].photoCount = 1 /\ Cardinality(PhotosOf(r)) = 1

====
